---- MODULE Spec2Model ----
(***************************************************************************)
(* Verification model of the enhanced RAG pipeline of the higress          *)
(* mcp-server (plugins/golang-filter/mcp-server/servers/rag).              *)
(*                                                                         *)
(* The module holds one state machine per component.  Each component has   *)
(* its own variables, its own initial predicate and its own next-state     *)
(* relation; a component specification starts the other components in     *)
(* their idle state and leaves them unchanged.                             *)
(*                                                                         *)
(*   SpecHttp      common/httpx/httpx.go        outbound HTTP client       *)
(*   SpecFusion    fusion/*.go                  fusion strategies          *)
(*   SpecClone     rag_client.go                L1 cache copies            *)
(*   SpecProfile   profile/provider.go, router  profile normalization and  *)
(*                                              the router decision        *)
(*   SpecSearch    retriever/*.go               retriever searches         *)
(*   SpecPipe      rag_client.go, orchestrator  stages of one query        *)
(*   SpecProvider  profile/provider.go, router  configured profiles over   *)
(*                                              a sequence of queries      *)
(*   SpecL1        rag_client.go, cache/lru.go  L1 cache and the fusion     *)
(*                                              weights version            *)
(*   SpecLRU       cache/lru.go                 Get, Set and Purge          *)
(*   SpecConc      common/httpx/httpx.go        concurrent Do calls         *)
(*   SpecFeedback  feedback/manager.go          verdict history and trend  *)
(*   SpecGate      gating, feedback/manager.go  gating stage over queries  *)
(*   SpecThrottle  gating, feedback/manager.go  concurrent feedback        *)
(*                                              adjustments                *)
(*   SpecCanary    fusion/learned.go            canary rollout of learned  *)
(*                                              fusion                     *)
(*   SpecLoader    fusion/weights_loader.go     concurrent Get calls       *)
(*   SpecRoute     router                       remote router and its      *)
(*                                              rule-based fallback        *)
(*   SpecRerank    post/rerank.go               HTTP reranker              *)
(*   SpecValidate  config validation            validatePipeline           *)
(*   SpecRetrieve  retrieval/provider.go        fan-out and fusion of one  *)
(*                                              Retrieve call              *)
(*   SpecSwap      retrieval/provider.go        SetFusionStrategy beside   *)
(*                                              Retrieve calls             *)
(***************************************************************************)
EXTENDS Integers, Sequences, FiniteSets, TLC

VARIABLES
    now,        \* wall clock, in whole seconds (time.Now())
    http,       \* the httpx.Client: opt (Options), fail, openUntil
    httpObs,    \* observation of the Do calls made so far (history summary)
    fusion,     \* a fusion strategy, its inputs and the outputs of its runs
    heap,       \* the maps, vectors and result slices allocated so far
    l1Cache,    \* the L1 cache entry of the query's key (0: no entry)
    held,       \* the result lists the callers of the pipeline hold
    cloneObs,   \* what was published to the cache, and the mutations made
    profile,    \* the retrieval profile a query works with
    profObs,    \* how the profile was obtained: stage, decision, results
    search,     \* the last retriever search: retriever, caller, outcome
    pipe,       \* one query in the pipeline: configuration, stage, results
    provider,   \* the profile provider's profiles and the queries run on them
    l1,         \* the client's L1 cache, the weights version it saw, the weights store
    lru,        \* an LRU cache, its clock and the history of its entries
    conc,       \* one httpx.Client used by concurrent Do calls, step by step
    fb,         \* a feedback manager and its last operation
    gating,     \* the gating provider with its feedback manager, and its last query
    throttle,   \* queries of one profile in the feedback adjustment at the same time
    canary,     \* a call of the learned strategy under traffic control
    wloader,    \* the weights loader used by concurrent callers of Get, step by step
    route,      \* an HTTP router with its rules, and its last Route call
    reranker,   \* a call of the HTTP reranker: candidates, the service's answer, the result
    validation, \* a pipeline configuration, what Validate says of it and a selection by name
    retrieval,  \* a Retrieve call of the retrieval provider: fan-out tasks, bundles, result
    swap        \* SetFusionStrategy running beside the fuse steps of two Retrieve calls

httpVars == <<now, http, httpObs>>
fusionVars == <<fusion>>

cloneVars == <<heap, l1Cache, held, cloneObs>>

profVars == <<profile, profObs>>

providerVars == <<provider>>

l1Vars == <<l1>>

lruVars == <<lru>>

concVars == <<conc>>

fbVars == <<fb>>

gateVars == <<gating>>

thrVars == <<throttle>>

canaryVars == <<canary>>

wlVars == <<wloader>>

routeVars == <<route>>

rerankVars == <<reranker>>

validateVars == <<validation>>

retrieveVars == <<retrieval>>

swapVars == <<swap>>

vars == <<now, http, httpObs, fusion, heap, l1Cache, held, cloneObs,
          profile, profObs, search, pipe,
          provider,
          l1,
          lru,
          conc,
          fb,
          gating,
          throttle,
          canary,
          wloader,
          route,
          reranker,
          validation,
          retrieval,
          swap>>

\* What each component leaves alone.
httpRest == <<fusion, cloneVars, profVars, search, pipe, providerVars, l1Vars, lruVars, concVars, fbVars, gateVars, thrVars, canaryVars, wlVars, routeVars, rerankVars, validateVars, retrieveVars, swapVars>>
fusionRest == <<httpVars, cloneVars, profVars, search, pipe, providerVars, l1Vars, lruVars, concVars, fbVars, gateVars, thrVars, canaryVars, wlVars, routeVars, rerankVars, validateVars, retrieveVars, swapVars>>
cloneRest == <<httpVars, fusion, profVars, search, pipe, providerVars, l1Vars, lruVars, concVars, fbVars, gateVars, thrVars, canaryVars, wlVars, routeVars, rerankVars, validateVars, retrieveVars, swapVars>>
profRest == <<httpVars, fusion, cloneVars, search, pipe, providerVars, l1Vars, lruVars, concVars, fbVars, gateVars, thrVars, canaryVars, wlVars, routeVars, rerankVars, validateVars, retrieveVars, swapVars>>
searchRest == <<httpVars, fusion, cloneVars, profVars, pipe, providerVars, l1Vars, lruVars, concVars, fbVars, gateVars, thrVars, canaryVars, wlVars, routeVars, rerankVars, validateVars, retrieveVars, swapVars>>
pipeRest == <<httpVars, fusion, cloneVars, profVars, search, providerVars, l1Vars, lruVars, concVars, fbVars, gateVars, thrVars, canaryVars, wlVars, routeVars, rerankVars, validateVars, retrieveVars, swapVars>>
providerRest == <<httpVars, fusion, cloneVars, profVars, search, pipe, l1Vars, lruVars, concVars, fbVars, gateVars, thrVars, canaryVars, wlVars, routeVars, rerankVars, validateVars, retrieveVars, swapVars>>
l1Rest == <<httpVars, fusion, cloneVars, profVars, search, pipe, providerVars, lruVars, concVars, fbVars, gateVars, thrVars, canaryVars, wlVars, routeVars, rerankVars, validateVars, retrieveVars, swapVars>>
lruRest == <<httpVars, fusion, cloneVars, profVars, search, pipe, providerVars, l1Vars, concVars, fbVars, gateVars, thrVars, canaryVars, wlVars, routeVars, rerankVars, validateVars, retrieveVars, swapVars>>
concRest == <<httpVars, fusion, cloneVars, profVars, search, pipe, providerVars, l1Vars, lruVars, fbVars, gateVars, thrVars, canaryVars, wlVars, routeVars, rerankVars, validateVars, retrieveVars, swapVars>>
fbRest == <<httpVars, fusion, cloneVars, profVars, search, pipe, providerVars, l1Vars, lruVars, concVars, gateVars, thrVars, canaryVars, wlVars, routeVars, rerankVars, validateVars, retrieveVars, swapVars>>
gateRest == <<httpVars, fusion, cloneVars, profVars, search, pipe, providerVars, l1Vars, lruVars, concVars, fbVars, thrVars, canaryVars, wlVars, routeVars, rerankVars, validateVars, retrieveVars, swapVars>>
thrRest == <<httpVars, fusion, cloneVars, profVars, search, pipe, providerVars, l1Vars, lruVars, concVars, fbVars, gateVars, canaryVars, wlVars, routeVars, rerankVars, validateVars, retrieveVars, swapVars>>
canaryRest == <<httpVars, fusion, cloneVars, profVars, search, pipe, providerVars, l1Vars, lruVars, concVars, fbVars, gateVars, thrVars, wlVars, routeVars, rerankVars, validateVars, retrieveVars, swapVars>>
wlRest == <<httpVars, fusion, cloneVars, profVars, search, pipe, providerVars, l1Vars, lruVars, concVars, fbVars, gateVars, thrVars, canaryVars, routeVars, rerankVars, validateVars, retrieveVars, swapVars>>
routeRest == <<httpVars, fusion, cloneVars, profVars, search, pipe, providerVars, l1Vars, lruVars, concVars, fbVars, gateVars, thrVars, canaryVars, wlVars, rerankVars, validateVars, retrieveVars, swapVars>>
rerankRest == <<httpVars, fusion, cloneVars, profVars, search, pipe, providerVars, l1Vars, lruVars, concVars, fbVars, gateVars, thrVars, canaryVars, wlVars, routeVars, validateVars, retrieveVars, swapVars>>
validateRest == <<httpVars, fusion, cloneVars, profVars, search, pipe, providerVars, l1Vars, lruVars, concVars, fbVars, gateVars, thrVars, canaryVars, wlVars, routeVars, rerankVars, retrieveVars, swapVars>>
retrieveRest == <<httpVars, fusion, cloneVars, profVars, search, pipe, providerVars, l1Vars, lruVars, concVars, fbVars, gateVars, thrVars, canaryVars, wlVars, routeVars, rerankVars, validateVars, swapVars>>
swapRest == <<httpVars, fusion, cloneVars, profVars, search, pipe, providerVars, l1Vars, lruVars, concVars, fbVars, gateVars, thrVars, canaryVars, wlVars, routeVars, rerankVars, validateVars, retrieveVars>>

-----------------------------------------------------------------------------
(***************************************************************************)
(* Generic helpers                                                         *)
(***************************************************************************)

Range(s) == {s[i] : i \in DOMAIN s}

Min(a, b) == IF a < b THEN a ELSE b

Max(a, b) == IF a > b THEN a ELSE b

-----------------------------------------------------------------------------
(***************************************************************************)
(* Outbound HTTP client: common/httpx/httpx.go                             *)
(***************************************************************************)

\* Bounds of the HTTP model.
MaxTime == 5
MaxFailing == 5

\* Defaults of NewFromConfig.
DefaultRetry == 1
DefaultMaxConsecutiveFail == 5
DefaultCircuitOpenSeconds == 5

\* A host name is a sequence of labels ("es.corp" is <<"es","corp">>).  A
\* pattern is a sequence of labels too; "*" is <<"*">>, "*.corp" is
\* <<"*","corp">>.
Hosts == { <<"es", "corp">>, <<"es", "CORP">>, <<"corp">>, <<"evil">> }

AllowLists ==
    { <<>>, << <<"*">> >>, << <<"*", "corp">> >>, << <<"es", "corp">> >> }

\* strings.ToLower on a label (the labels of the model are lower case but
\* for "CORP").
ToLowerLabel(l) == IF l = "CORP" THEN "corp" ELSE l

ToLowerHost(h) == [i \in DOMAIN h |-> ToLowerLabel(h[i])]

\* strings.HasSuffix(host, "." + suf): the host ends with the labels of suf
\* and has at least one more label in front of them.
HasDotSuffix(host, suf) ==
    /\ Len(host) > Len(suf)
    /\ SubSeq(host, Len(host) - Len(suf) + 1, Len(host)) = suf

\* Variant of matchHost without the bare suffix of a "*.suffix" pattern.
matchHostNoBareSuffix(pattern, host) ==
    IF pattern = <<"*">> THEN TRUE
    ELSE IF ToLowerHost(pattern) = ToLowerHost(host) THEN TRUE
    ELSE IF Len(pattern) >= 2 /\ pattern[1] = "*"
         THEN HasDotSuffix(host, Tail(pattern))
    ELSE FALSE

matchHost(pattern, host) ==
    IF pattern = <<"*">> THEN TRUE
    ELSE IF ToLowerHost(pattern) = ToLowerHost(host) THEN TRUE
    ELSE IF Len(pattern) >= 2 /\ pattern[1] = "*"
         THEN LET suf == Tail(pattern)
              IN  HasDotSuffix(host, suf) \/ host = suf
    ELSE FALSE

allowed(opt, host) ==
    IF Len(opt.HostAllowlist) = 0 THEN TRUE
    ELSE \E i \in DOMAIN opt.HostAllowlist : matchHost(opt.HostAllowlist[i], host)

\* The configurations a client is built from (config.HTTPClientConfig):
\* a value <= 0 selects the default.
HTTPClientConfigs ==
    [ Retry : {0, 2},
      MaxConsecutiveFailures : {0, 3},
      CircuitOpenSeconds : {0, 1},
      HostAllowlist : AllowLists ]

NewFromConfig(cfg) ==
    [ Retry              |-> IF cfg.Retry > 0 THEN cfg.Retry ELSE DefaultRetry,
      MaxConsecutiveFail |-> IF cfg.MaxConsecutiveFailures > 0
                             THEN cfg.MaxConsecutiveFailures
                             ELSE DefaultMaxConsecutiveFail,
      CircuitOpen        |-> IF cfg.CircuitOpenSeconds > 0
                             THEN cfg.CircuitOpenSeconds
                             ELSE DefaultCircuitOpenSeconds,
      HostAllowlist      |-> cfg.HostAllowlist ]

\* Outcome of one c.hc.Do(req): a response with a status in [200,500), a
\* response with a 5xx status, or a transport error (no response).
AttemptOutcomes == {"ok", "5xx", "err"}

AttemptOk(o) == o = "ok"

\* The first of the possible attempts that succeeds (0: none does).
FirstOk(outs) ==
    IF \E i \in DOMAIN outs : AttemptOk(outs[i])
    THEN CHOOSE i \in DOMAIN outs :
           /\ AttemptOk(outs[i])
           /\ \A j \in 1..(i - 1) : ~AttemptOk(outs[j])
    ELSE 0

\* Variant of AttemptsMade that goes through all the attempts.
AttemptsAll(outs, i) == Len(outs)

\* Number of attempts the retry loop makes on the outcomes outs (one per
\* possible attempt): it stops at the first successful attempt.
RECURSIVE AttemptsMade(_, _)
AttemptsMade(outs, i) ==
    IF i > Len(outs) THEN Len(outs)
    ELSE IF AttemptOk(outs[i]) THEN i
    ELSE AttemptsMade(outs, i + 1)

\* Variant of FailAfterFinalFailure that counts every failed attempt of the
\* call instead of the call.
FailCountsAttempts(c) == c.fail + c.opt.Retry + 1

\* The counter after a Do call whose attempts all failed:
\* atomic.AddInt32(&c.fail, 1).
FailAfterFinalFailure(c) == c.fail + 1

\* Variant of FailAfterSuccess that keeps the counter.
FailKeptOnSuccess(c) == c.fail

\* The counter after a Do call with a successful attempt:
\* atomic.StoreInt32(&c.fail, 0).
FailAfterSuccess(c) == 0

\* Variant of OpensCircuit that opens one failure late.
OpensCircuitLate(c, n) == n > c.opt.MaxConsecutiveFail

\* Whether the circuit opens on that count.
OpensCircuit(c, n) == n >= c.opt.MaxConsecutiveFail

\* Variant of CircuitIsOpen that is still open at the deadline.
CircuitOpenAtDeadline(c, t) == c.openUntil >= t

\* Whether Do refuses the call because the circuit is open at time t.
CircuitIsOpen(c, t) == c.openUntil > t

HttpObsInit ==
    [ result      |-> "none",   \* how the last call ended
      lastHost    |-> <<>>,     \* host of the last call's request
      firstOk     |-> 0,        \* first attempt of the last call that was
                                \* to succeed (0: none)
      lastAttempts|-> 0,        \* attempts made by the last call
      lastResp    |-> "none",   \* response returned by the last call
      lastErr     |-> "nil",    \* error returned by the last call
      failing     |-> 0,        \* failing calls since creation or last success
      lastFailAt  |-> 0,        \* when the last failing call returned
      only500     |-> TRUE ]    \* every attempt so far was answered 5xx

HttpInit ==
    /\ now = 0
    /\ \E cfg \in HTTPClientConfigs :
         http = [opt |-> NewFromConfig(cfg), fail |-> 0, openUntil |-> 0]
    /\ httpObs = HttpObsInit

\* Client.Do for a request to host.  When attempts are made, outs gives how
\* each possible attempt ends (written "ok" for the attempts that are not
\* made) and d the seconds the call takes (I/O and backoff sleeps).
Do(host) ==
    IF ~allowed(http.opt, host) THEN
       /\ httpObs' = [httpObs EXCEPT !.result = "host-not-allowed",
                                     !.lastHost = host,
                                     !.firstOk = 0,
                                     !.lastAttempts = 0,
                                     !.lastResp = "none",
                                     !.lastErr = "host not allowed"]
       /\ UNCHANGED <<now, http>>
    ELSE IF CircuitIsOpen(http, now) THEN
       /\ httpObs' = [httpObs EXCEPT !.result = "circuit-open",
                                     !.lastHost = host,
                                     !.firstOk = 0,
                                     !.lastAttempts = 0,
                                     !.lastResp = "none",
                                     !.lastErr = "circuit open"]
       /\ UNCHANGED <<now, http>>
    ELSE
       \E outs \in [1..(http.opt.Retry + 1) -> AttemptOutcomes], d \in {0, 1} :
          LET n    == AttemptsMade(outs, 1)
              ok   == AttemptOk(outs[n])
              cnt  == FailAfterFinalFailure(http)
          IN  /\ \A i \in DOMAIN outs : i > n => outs[i] = "ok"
              /\ now + d <= MaxTime
              /\ ok \/ httpObs.failing < MaxFailing
              /\ now' = now + d
              /\ http' = IF ok THEN [http EXCEPT !.fail = FailAfterSuccess(http)]
                         ELSE IF OpensCircuit(http, cnt)
                              THEN [http EXCEPT
                                      !.openUntil = now' + http.opt.CircuitOpen,
                                      !.fail = 0]
                              ELSE [http EXCEPT !.fail = cnt]
              /\ httpObs' = [httpObs EXCEPT
                               !.result = IF ok THEN "ok" ELSE "fail",
                               !.lastHost = host,
                               !.firstOk = FirstOk(outs),
                               !.lastAttempts = n,
                               !.lastResp = IF outs[n] = "err" THEN "none" ELSE outs[n],
                               !.lastErr = IF outs[n] = "err" THEN "transport" ELSE "nil",
                               !.failing = IF ok THEN 0 ELSE @ + 1,
                               !.lastFailAt = IF ok THEN @ ELSE now',
                               !.only500 = @ /\ (\A i \in 1..n : outs[i] = "5xx")]

HttpDo == (\E host \in Hosts : Do(host)) /\ UNCHANGED httpRest

\* Time passes between calls.
HttpTick ==
    /\ now < MaxTime
    /\ now' = now + 1
    /\ UNCHANGED <<http, httpObs>>
    /\ UNCHANGED httpRest

HttpNext == HttpDo \/ HttpTick

-----------------------------------------------------------------------------
(***************************************************************************)
(* Fusion strategies: fusion/rrf.go, fusion/strategy.go, fusion/simple.go, *)
(* fusion/learned.go                                                       *)
(*                                                                         *)
(* Scores are float64 in the code; the model computes them exactly, as     *)
(* fractions n/d with d > 0.                                               *)
(***************************************************************************)

\* Bound of the fusion model: results over all the inputs of one call.
MaxResults == 4

\* NewRRFStrategy(60), the default k of RRFScore.
DefaultRRFK == 60

Rat(n, d) == [n |-> n, d |-> d]

RatAdd(x, y) == Rat(x.n * y.d + y.n * x.d, x.d * y.d)

RatMulInt(x, w) == Rat(x.n * w, x.d)

RatDivInt(x, c) == Rat(x.n, x.d * c)

RatSub(x, y) == Rat(x.n * y.d - y.n * x.d, x.d * y.d)

\* x / y for y > 0
RatDiv(x, y) == Rat(x.n * y.d, x.d * y.n)

RatGreater(x, y) == x.n * y.d > y.n * x.d

RatLess(x, y) == RatGreater(y, x)

RatEq(x, y) == x.n * y.d = y.n * x.d

RatZero == Rat(0, 1)

DocIds == {"", "a", "b"}

ScoreValues == {1, 2}

\* schema.SearchResult: the document (its id) and the score.
SearchResults == [id : DocIds, score : ScoreValues]

\* Keys of a weights map: the string x is <<x>>, "" is <<>>,
\* "vector:es" is <<"vector","es">>, "list_0" is <<"list_", 0>>.
StrKey(x) == IF x = "" THEN <<>> ELSE <<x>>

compoundKey(r, p) == StrKey(r) \o StrKey(p)

indexKey(idx) == <<"list_", idx>>

NoWeights == [k \in {} |-> 0]

VectorTwice == [k \in {<<"vector">>} |-> 2]

\* The weights map {"list_1": 2}
ListOneTwice == [k \in {indexKey(1)} |-> 2]

\* The two fusion inputs of a call: the results of the vector retriever and
\* those of the bm25 retriever (provider "es").
RetrieverResultOf(i, results) ==
    [ Retriever |-> IF i = 1 THEN "vector" ELSE "bm25",
      Provider  |-> IF i = 1 THEN "" ELSE "es",
      Results   |-> [j \in DOMAIN results |->
                       [id |-> results[j].id, score |-> Rat(results[j].score, 1)]] ]

FusionInputs ==
    { << RetrieverResultOf(1, [j \in 1..cut |-> flat[j]]),
         RetrieverResultOf(2, [j \in 1..(Len(flat) - cut) |-> flat[cut + j]]) >> :
        <<flat, cut>> \in
            UNION { [1..n -> SearchResults] \X (0..n) : n \in 0..MaxResults } }

\* The items of the inputs in the order the strategies walk them: input by
\* input, each in rank order.  list is the Go index of the input, rank the
\* 1-based rank in its list.
RECURSIVE ItemsFrom(_, _)
ItemsFrom(inputs, i) ==
    IF i > Len(inputs) THEN <<>>
    ELSE [j \in DOMAIN inputs[i].Results |->
            [ id |-> inputs[i].Results[j].id,
              score |-> inputs[i].Results[j].score,
              list |-> i - 1,
              rank |-> j,
              retriever |-> inputs[i].Retriever ]]
         \o ItemsFrom(inputs, i + 1)

Items(inputs) == ItemsFrom(inputs, 1)

\* Variant of KeepsId that lets documents with an empty id through.
KeepsAnyId(id) == TRUE

\* The guard of every accumulation loop: `if id == "" { continue }`.
KeepsId(id) == id # ""

\* The ids of the items in the order in which they are first met.
RECURSIVE FirstSeen(_, _, _)
FirstSeen(items, i, seen) ==
    IF i > Len(items) THEN seen
    ELSE IF KeepsId(items[i].id) /\ items[i].id \notin Range(seen)
         THEN FirstSeen(items, i + 1, Append(seen, items[i].id))
         ELSE FirstSeen(items, i + 1, seen)

\* Sum of the contributions c of the items of one id (scores[id].score += c).
RECURSIVE SumOf(_, _, _)
SumOf(items, id, i) ==
    IF i > Len(items) THEN RatZero
    ELSE IF items[i].id = id THEN RatAdd(items[i].c, SumOf(items, id, i + 1))
    ELSE SumOf(items, id, i + 1)

CountOf(items, id) == Cardinality({i \in DOMAIN items : items[i].id = id})

FirstIndexOf(items, id) ==
    CHOOSE i \in DOMAIN items :
        items[i].id = id /\ \A j \in DOMAIN items : items[j].id = id => i <= j

\* The aggregate map of a strategy as a sequence in first-met order: for
\* every id the document first met (its retriever_type) and the summed
\* contributions, divided by the number of contributions when mean is set.
Aggregate(items, mean) ==
    LET ids == FirstSeen(items, 1, <<>>)
    IN  [n \in DOMAIN ids |->
            LET id  == ids[n]
                sum == SumOf(items, id, 1)
            IN  [ id    |-> id,
                  score |-> IF mean /\ CountOf(items, id) > 0
                            THEN RatDivInt(sum, CountOf(items, id)) ELSE sum,
                  rtype |-> items[FirstIndexOf(items, id)].retriever ]]

\* sort.Slice(out, func(i, j) bool { return out[i].Score > out[j].Score })
\* leaves no element in front of one with a greater score.
ScoreOrdered(out) ==
    \A i, j \in DOMAIN out : i < j => ~RatGreater(out[j].score, out[i].score)

Bijections(n) == {f \in [1..n -> 1..n] : \A i, j \in 1..n : f[i] = f[j] => i = j}

\* The slices a strategy can return for an aggregate map: `for _, v := range
\* scores` appends the entries in an unspecified order and sort.Slice, which
\* is not stable, orders them by score.
RangeThenSortSlice(agg) ==
    { out \in {[i \in DOMAIN agg |-> agg[f[i]]] : f \in Bijections(Len(agg))} :
        ScoreOrdered(out) }

NonEmptyInputs(inputs) == SelectSeq(inputs, LAMBDA in : Len(in.Results) > 0)

\* RRFScore(lists, k): rank r of a list contributes 1/(k+r).
RRFScore(inputs, k) ==
    LET kk    == IF k <= 0 THEN DefaultRRFK ELSE k
        items == Items(inputs)
        withC == [i \in DOMAIN items |->
                    [id |-> items[i].id, retriever |-> "",
                     c |-> Rat(1, kk + items[i].rank)]]
    IN  RangeThenSortSlice(Aggregate(withC, FALSE))

\* RRFStrategy.Fuse: k from params when positive, empty inputs dropped.
RRFFuse(cfg, inputs) ==
    RRFScore(NonEmptyInputs(inputs), IF cfg.paramK > 0 THEN cfg.paramK ELSE cfg.K)

\* The weight of input idx (Go index) in WeightedStrategy.Fuse.
WeightFor(weights, in, idx) ==
    IF StrKey(in.Retriever) \in DOMAIN weights THEN weights[StrKey(in.Retriever)]
    ELSE IF compoundKey(in.Retriever, in.Provider) # <<>>
         THEN IF compoundKey(in.Retriever, in.Provider) \in DOMAIN weights
              THEN weights[compoundKey(in.Retriever, in.Provider)] ELSE 1
    ELSE IF indexKey(idx) \in DOMAIN weights THEN weights[indexKey(idx)]
    ELSE 1

\* WeightedStrategy.Fuse: mean of score * weight over the contributions.
WeightedFuse(weights, inputs) ==
    IF Len(inputs) = 0 THEN {<<>>}
    ELSE LET items == Items(inputs)
             withC == [i \in DOMAIN items |->
                         [id |-> items[i].id, retriever |-> items[i].retriever,
                          c |-> RatMulInt(items[i].score,
                                   WeightFor(weights, inputs[items[i].list + 1],
                                             items[i].list))]]
         IN  RangeThenSortSlice(Aggregate(withC, TRUE))

RECURSIVE SumSeq(_, _)
SumSeq(w, i) == IF i > Len(w) THEN 0 ELSE w[i] + SumSeq(w, i + 1)

\* LinearCombinationStrategy.Fuse: weight of input idx is weights[idx]/total
\* (1/total past the end of the vector), total 0 counts as 1.
LinearFuse(weights, inputs) ==
    IF Len(inputs) = 0 THEN {<<>>}
    ELSE LET w     == IF Len(weights) = 0 THEN <<1>> ELSE weights
             sum   == SumSeq(w, 1)
             total == IF sum = 0 THEN 1 ELSE sum
             sign  == IF total < 0 THEN -1 ELSE 1
             items == Items(inputs)
             withC == [i \in DOMAIN items |->
                         [id |-> items[i].id, retriever |-> items[i].retriever,
                          c |-> RatDivInt(
                                  RatMulInt(items[i].score,
                                     sign * (IF items[i].list < Len(w)
                                             THEN w[items[i].list + 1] ELSE 1)),
                                  sign * total)]]
         IN  RangeThenSortSlice(Aggregate(withC, FALSE))

RECURSIVE MinScore(_, _)
MinScore(rs, i) ==
    IF i = Len(rs) THEN rs[i].score
    ELSE LET m == MinScore(rs, i + 1)
         IN  IF RatLess(rs[i].score, m) THEN rs[i].score ELSE m

RECURSIVE MaxScore(_, _)
MaxScore(rs, i) ==
    IF i = Len(rs) THEN rs[i].score
    ELSE LET m == MaxScore(rs, i + 1)
         IN  IF RatGreater(rs[i].score, m) THEN rs[i].score ELSE m

\* The min/max normalisation of DistributionBasedStrategy.Fuse: empty inputs
\* are dropped, a constant list becomes all 1.0.
Normalized(inputs) ==
    LET ne == NonEmptyInputs(inputs)
    IN  [i \in DOMAIN ne |->
           LET lo  == MinScore(ne[i].Results, 1)
               hi  == MaxScore(ne[i].Results, 1)
               rng == RatSub(hi, lo)
           IN  [ne[i] EXCEPT !.Results =
                  [j \in DOMAIN ne[i].Results |->
                     [ne[i].Results[j] EXCEPT !.score =
                        IF RatGreater(rng, RatZero)
                        THEN RatDiv(RatSub(ne[i].Results[j].score, lo), rng)
                        ELSE Rat(1, 1)]]]]

\* The stored result of SimpleFusionStrategy.Fuse for one id: the first item
\* of the id, replaced by each later item with a strictly greater score.
RECURSIVE MaxMerge(_, _, _, _)
MaxMerge(items, id, i, best) ==
    IF i > Len(items) THEN best
    ELSE IF items[i].id = id /\ RatGreater(items[i].score, items[best].score)
         THEN MaxMerge(items, id, i + 1, i)
         ELSE MaxMerge(items, id, i + 1, best)

\* SimpleFusionStrategy.Fuse: per-document maximum, optional top-k cut.
SimpleFuse(topK, inputs) ==
    IF Len(inputs) = 0 THEN {<<>>}
    ELSE LET items == Items(inputs)
             ids   == FirstSeen(items, 1, <<>>)
             agg   == [n \in DOMAIN ids |->
                         LET b == MaxMerge(items, ids[n], 1,
                                           FirstIndexOf(items, ids[n]))
                         IN  [id |-> ids[n], score |-> items[b].score,
                              rtype |-> items[b].retriever]]
         IN  { IF topK > 0 /\ Len(out) > topK THEN SubSeq(out, 1, topK) ELSE out :
                 out \in RangeThenSortSlice(agg) }

\* The strategies of the model.  K and paramK are the RRF k of the strategy
\* and of the call's params (0: not given); weights the weights map of a
\* weighted strategy or of the learned snapshot; linear the weight vector;
\* base the wrapped strategy of "distribution" and the fallback of
\* "learned"; topK the cut of "simple"; active whether the learned weights
\* are applied (snapshot loaded, query inside the canary percentage); bias
\* the snapshot's bias.
FusionConfig(name, paramK, weights, linear, base, topK, active, bias) ==
    [ name |-> name, K |-> DefaultRRFK, paramK |-> paramK, weights |-> weights,
      linear |-> linear, base |-> base, topK |-> topK, active |-> active,
      bias |-> bias ]

FusionConfigs ==
    { FusionConfig("rrf", 0, NoWeights, <<>>, "", 0, FALSE, 0),
      FusionConfig("rrf", 1, NoWeights, <<>>, "", 0, FALSE, 0),
      FusionConfig("weighted", 0, NoWeights, <<>>, "", 0, FALSE, 0),
      FusionConfig("weighted", 0, VectorTwice, <<>>, "", 0, FALSE, 0),
      FusionConfig("weighted", 0, ListOneTwice, <<>>, "", 0, FALSE, 0),
      FusionConfig("linear", 0, NoWeights, <<>>, "", 0, FALSE, 0),
      FusionConfig("linear", 0, NoWeights, <<1, 2>>, "", 0, FALSE, 0),
      FusionConfig("distribution", 0, NoWeights, <<>>, "rrf", 0, FALSE, 0),
      FusionConfig("distribution", 0, VectorTwice, <<>>, "weighted", 0, FALSE, 0),
      FusionConfig("simple", 0, NoWeights, <<>>, "", 0, FALSE, 0),
      FusionConfig("simple", 0, NoWeights, <<>>, "", 1, FALSE, 0),
      FusionConfig("learned", 0, VectorTwice, <<>>, "rrf", 0, TRUE, 1),
      FusionConfig("learned", 0, VectorTwice, <<>>, "rrf", 0, FALSE, 1) }

\* Fuse of the strategies that wrap no other strategy.
BaseFuse(name, cfg, inputs) ==
    CASE name = "rrf"      -> RRFFuse(cfg, inputs)
      [] name = "weighted" -> WeightedFuse(cfg.weights, inputs)
      [] name = "linear"   -> LinearFuse(cfg.linear, inputs)
      [] name = "simple"   -> SimpleFuse(cfg.topK, inputs)

\* Strategy.Fuse: the set of result lists a call can return.
Fuse(cfg, inputs) ==
    CASE cfg.name = "distribution" ->
           IF Len(inputs) = 0 THEN {<<>>}
           ELSE BaseFuse(cfg.base, cfg, Normalized(inputs))
      [] cfg.name = "learned" ->
           IF cfg.active
           THEN { [i \in DOMAIN out |->
                     [out[i] EXCEPT !.score = RatAdd(@, Rat(cfg.bias, 1))]] :
                    out \in WeightedFuse(cfg.weights, inputs) }
           ELSE BaseFuse(cfg.base, cfg, inputs)
      [] OTHER -> BaseFuse(cfg.name, cfg, inputs)

FusionInit ==
    \E inputs \in FusionInputs, cfg \in FusionConfigs :
        fusion = [inputs |-> inputs, cfg |-> cfg, outs |-> <<>>]

FusionIdle == fusion = [inputs |-> <<>>, cfg |-> "none", outs |-> <<>>]

\* One run of the strategy on the inputs; the model keeps the results of two
\* runs on the same inputs with the same parameters.
FusionRun ==
    /\ Len(fusion.outs) < 2
    /\ \E out \in Fuse(fusion.cfg, fusion.inputs) :
         fusion' = [fusion EXCEPT !.outs = Append(@, out)]
    /\ UNCHANGED fusionRest

FusionNext == FusionRun

-----------------------------------------------------------------------------
(***************************************************************************)
(* The L1 result cache of the enhanced pipeline: rag_client.go             *)
(* (runEnhancedPipeline, cloneResults, cloneDocument, cloneVector)         *)
(*                                                                         *)
(* Go slices and maps are references.  The model keeps them in a heap:     *)
(* heap.lists[a] is the backing array of a []schema.SearchResult,          *)
(* heap.maps[a] a map[string]interface{}, heap.vecs[a] a []float32; the    *)
(* address 0 is nil.  A map value is a scalar (val) or a reference to a    *)
(* nested map (ref).                                                       *)
(***************************************************************************)

\* Bounds of the cache model: result lists handed to callers, mutations.
MaxHeld == 3
MaxMutations == 2

Scalar(v) == [ref |-> 0, val |-> v]

Nested(a) == [ref |-> a, val |-> ""]

EmptyHeap == [lists |-> <<>>, maps |-> <<>>, vecs |-> <<>>]

\* The documents a retrieval can produce: metadata absent, flat, or holding
\* a nested object (as the _source of a search hit does); vector absent or
\* present.
MetadataShapes == {"nil", "flat", "nested"}

VectorShapes == {"nil", "set"}

\* Retrieve: allocates a fresh result list of one document of the given
\* shape (no document when docs is 0).  Returns the new heap and the list.
Retrieved(h, docs, meta, vec) ==
    LET inner   == [k \in {"x"} |-> Scalar("v")]
        maps1   == IF meta = "nested" THEN Append(h.maps, inner) ELSE h.maps
        top     == IF meta = "nested"
                   THEN [k \in {"t", "n"} |->
                           IF k = "t" THEN Scalar("v") ELSE Nested(Len(maps1))]
                   ELSE [k \in {"t"} |-> Scalar("v")]
        maps2   == IF meta = "nil" THEN maps1 ELSE Append(maps1, top)
        vecs2   == IF vec = "nil" THEN h.vecs ELSE Append(h.vecs, <<1>>)
        doc     == [ Score    |-> 1,
                     ID       |-> "a",
                     Metadata |-> IF meta = "nil" THEN 0 ELSE Len(maps2),
                     Vector   |-> IF vec = "nil" THEN 0 ELSE Len(vecs2) ]
        list    == IF docs = 0 THEN <<>> ELSE <<doc>>
        h2      == [lists |-> Append(h.lists, list), maps |-> maps2, vecs |-> vecs2]
    IN  [heap |-> h2, list |-> Len(h2.lists)]

\* `cloned.Metadata[k] = v`: the value is assigned as it is, a nested map is
\* the same map in the copy.
cloneMetadataValue(h, v) == [heap |-> h, value |-> v]

\* The keys of a metadata map in a fixed order.
KeyOrder == <<"t", "n">>

RECURSIVE cloneEntries(_, _, _, _)
cloneEntries(h, src, i, acc) ==
    IF i > Len(KeyOrder) THEN [heap |-> h, entries |-> acc]
    ELSE IF KeyOrder[i] \notin DOMAIN src THEN cloneEntries(h, src, i + 1, acc)
    ELSE LET c == cloneMetadataValue(h, src[KeyOrder[i]])
         IN  cloneEntries(c.heap, src, i + 1,
                 [k \in DOMAIN acc \cup {KeyOrder[i]} |->
                    IF k = KeyOrder[i] THEN c.value ELSE acc[k]])

\* cloneVector: nil for an empty vector, else a fresh copy.
cloneVector(h, a) ==
    IF Len(h.vecs[a]) = 0 THEN [heap |-> h, vec |-> 0]
    ELSE [heap |-> [h EXCEPT !.vecs = Append(@, h.vecs[a])],
          vec |-> Len(h.vecs) + 1]

\* cloneDocument: a copy of the struct with a new top-level metadata map and
\* a new vector.
cloneDocument(h, doc) ==
    LET m  == IF doc.Metadata # 0
              THEN LET c  == cloneEntries(h, h.maps[doc.Metadata], 1,
                                          [k \in {} |-> Scalar("")])
                       h2 == [c.heap EXCEPT !.maps = Append(@, c.entries)]
                   IN  [heap |-> h2, map |-> Len(h2.maps)]
              ELSE [heap |-> h, map |-> 0]
        v  == IF doc.Vector # 0 THEN cloneVector(m.heap, doc.Vector)
              ELSE [heap |-> m.heap, vec |-> 0]
    IN  [heap |-> v.heap,
         doc  |-> [doc EXCEPT !.Metadata = m.map, !.Vector = v.vec]]

RECURSIVE cloneDocs(_, _, _, _)
cloneDocs(h, src, i, acc) ==
    IF i > Len(src) THEN [heap |-> h, docs |-> acc]
    ELSE LET c == cloneDocument(h, src[i])
         IN  cloneDocs(c.heap, src, i + 1, Append(acc, c.doc))

\* cloneResults: nil for an empty list, else a new slice of cloned documents.
cloneResults(h, list) ==
    IF list = 0 \/ Len(h.lists[list]) = 0 THEN [heap |-> h, list |-> 0]
    ELSE LET c  == cloneDocs(h, h.lists[list], 1, <<>>)
             h2 == [c.heap EXCEPT !.lists = Append(@, c.docs)]
         IN  [heap |-> h2, list |-> Len(h2.lists)]

\* What a reader sees through a metadata map, nested maps included.
RECURSIVE DeepMap(_, _)
DeepMap(h, a) ==
    [k \in DOMAIN h.maps[a] |->
        IF h.maps[a][k].ref = 0 THEN [val |-> h.maps[a][k].val, sub |-> {}]
        ELSE [val |-> "", sub |-> {DeepMap(h, h.maps[a][k].ref)}]]

\* What a reader sees through a result list.
DeepList(h, list) ==
    IF list = 0 THEN <<>>
    ELSE [i \in DOMAIN h.lists[list] |->
            LET d == h.lists[list][i]
            IN  [ Score    |-> d.Score,
                  ID       |-> d.ID,
                  Metadata |-> IF d.Metadata = 0 THEN {} ELSE {DeepMap(h, d.Metadata)},
                  Vector   |-> IF d.Vector = 0 THEN <<>> ELSE h.vecs[d.Vector] ]]

CloneObsInit == [published |-> <<>>, mutations |-> 0, hits |-> 0]

CloneInit ==
    /\ heap = EmptyHeap
    /\ l1Cache = 0
    /\ held = <<>>
    /\ cloneObs = CloneObsInit

\* runEnhancedPipeline with cacheMode "post" when the probe misses: the
\* results of the retrieval are published as cloneResults(results) when
\* there are any, and returned to the caller.
PipelineMiss ==
    /\ l1Cache = 0
    /\ Len(held) < MaxHeld
    /\ \E docs \in {0, 1}, meta \in MetadataShapes, vec \in VectorShapes :
         LET r == Retrieved(heap, docs, meta, vec)
             c == cloneResults(r.heap, r.list)
         IN  /\ heap' = c.heap
             /\ l1Cache' = IF Len(r.heap.lists[r.list]) > 0 THEN c.list ELSE 0
             /\ held' = Append(held, r.list)
             /\ cloneObs' = [cloneObs EXCEPT
                               !.published = DeepList(r.heap, r.list)]
    /\ UNCHANGED cloneRest

\* runEnhancedPipeline when the probe hits: returns cloneResults(docs).
PipelineHit ==
    /\ l1Cache # 0
    /\ Len(held) < MaxHeld
    /\ LET c == cloneResults(heap, l1Cache)
       IN  /\ heap' = c.heap
           /\ held' = Append(held, c.list)
    /\ cloneObs' = [cloneObs EXCEPT !.hits = @ + 1]
    /\ UNCHANGED l1Cache
    /\ UNCHANGED cloneRest

\* A caller changes something it reaches through a list it was handed: a
\* field of a document, an entry of its metadata map, an entry of a map
\* nested in the metadata, an element of its vector.
CallerMutates ==
    /\ cloneObs.mutations < MaxMutations
    /\ \E n \in DOMAIN held :
         /\ held[n] # 0
         /\ \E i \in DOMAIN heap.lists[held[n]] :
              LET d == heap.lists[held[n]][i]
              IN  \/ heap' = [heap EXCEPT !.lists[held[n]][i].Score = 9]
                  \/ /\ d.Metadata # 0
                     /\ heap' = [heap EXCEPT !.maps[d.Metadata]["t"] = Scalar("w")]
                  \/ /\ d.Metadata # 0
                     /\ "n" \in DOMAIN heap.maps[d.Metadata]
                     /\ heap' = [heap EXCEPT
                                   !.maps[heap.maps[d.Metadata]["n"].ref]["x"] =
                                       Scalar("w")]
                  \/ /\ d.Vector # 0
                     /\ heap' = [heap EXCEPT !.vecs[d.Vector][1] = 9]
    /\ cloneObs' = [cloneObs EXCEPT !.mutations = @ + 1]
    /\ UNCHANGED <<l1Cache, held>>
    /\ UNCHANGED cloneRest

CloneNext == PipelineMiss \/ PipelineHit \/ CallerMutates

-----------------------------------------------------------------------------
(***************************************************************************)
(* Retrieval profiles: profile/provider.go (Normalize),                    *)
(* orchestrator/orchestrator.go (normalizeProfile) and the router's        *)
(* ApplyDecision                                                           *)
(***************************************************************************)

\* The defaults of Normalize and of defaultTopK.
DefaultTopK == 10

DefaultThreshold == Rat(1, 2)

NoBudgets == [k \in {} |-> 0]

\* config.RetrievalProfile values as they can be configured.
RetrievalProfiles ==
    [ Retrievers       : {<<>>, <<"vector">>, <<"bm25", "web">>},
      TopK             : {-1, 0, 5},
      Threshold        : {RatZero, Rat(7, 10)},
      UseWeb           : BOOLEAN,
      PerRetrieverTopK : {0, 3},
      HYDE             : {[Enable |-> FALSE, MaxSeeds |-> 0]},
      VariantBudgets   : {NoBudgets, [k \in {"dense"} |-> 4]} ]

\* cfg.RAG of the orchestrator: top_k and threshold of the base config.
RAGConfigs == [TopK : {0, 4}, Threshold : {RatZero, Rat(3, 5)}]

\* `if prof.TopK == 0`
TopKUnset(k) == k = 0

\* defaultProvider.Normalize
Normalize(prof) ==
    LET p1 == IF TopKUnset(prof.TopK) THEN [prof EXCEPT !.TopK = DefaultTopK] ELSE prof
        p2 == IF RatEq(p1.Threshold, RatZero)
              THEN [p1 EXCEPT !.Threshold = DefaultThreshold] ELSE p1
        p3 == IF Len(p2.Retrievers) = 0
              THEN [p2 EXCEPT !.Retrievers = <<"vector">>] ELSE p2
    IN  IF p3.PerRetrieverTopK = 0
        THEN [p3 EXCEPT !.PerRetrieverTopK = p3.TopK] ELSE p3

defaultTopK(cfg) == IF cfg.TopK > 0 THEN cfg.TopK ELSE DefaultTopK

\* Orchestrator.normalizeProfile
normalizeProfile(cfg, prof) ==
    LET p1 == IF prof.TopK <= 0 THEN [prof EXCEPT !.TopK = defaultTopK(cfg)] ELSE prof
    IN  IF ~RatGreater(p1.Threshold, RatZero)
        THEN [p1 EXCEPT !.Threshold = cfg.Threshold] ELSE p1

\* VariantBudget{Enable, TopK}
VariantBudget(enable, topK) == [Enable |-> enable, TopK |-> topK]

DecisionBudgets ==
    { [k \in {} |-> VariantBudget(FALSE, 0)],
      [k \in {"dense"} |-> VariantBudget(TRUE, 2)],
      [k \in {"dense", "sparse"} |->
          IF k = "dense" THEN VariantBudget(TRUE, 2) ELSE VariantBudget(TRUE, 0)],
      [k \in {"dense", " Dense"} |->
          IF k = "dense" THEN VariantBudget(TRUE, 2) ELSE VariantBudget(TRUE, 6)],
      [k \in {"web", "hyde", "sparse"} |->
          IF k = "web" THEN VariantBudget(TRUE, 1)
          ELSE IF k = "hyde" THEN VariantBudget(TRUE, 2)
          ELSE VariantBudget(FALSE, 0)] }

\* RoutingDecision values (isNil: the nil decision).
RoutingDecisions ==
    [ isNil          : {FALSE},
      NeedWeb        : BOOLEAN,
      NeedVector     : BOOLEAN,
      NeedBM25       : BOOLEAN,
      SuggestedTopK  : {0, 7, 101},
      VariantBudgets : DecisionBudgets ]
    \cup
    [ isNil          : {TRUE},
      NeedWeb        : {FALSE},
      NeedVector     : {FALSE},
      NeedBM25       : {FALSE},
      SuggestedTopK  : {0},
      VariantBudgets : {[k \in {} |-> VariantBudget(FALSE, 0)]} ]

\* strings.ToLower(strings.TrimSpace(v)) on the variant names of the model
normalizeVariant(v) == IF v = " Dense" THEN "dense" ELSE v

\* strings.Contains on the lower-case retriever names of the model, none of
\* which is part of another
ContainsStr(r, typ) == r = typ

containsRetriever(retrievers, typ) ==
    \E i \in DOMAIN retrievers : ContainsStr(retrievers[i], typ)

AppendIfMissing(retrievers, typ) ==
    IF containsRetriever(retrievers, typ) THEN retrievers
    ELSE Append(retrievers, typ)

\* The orders in which `range` can visit the keys of a map.
RangeOrders(keys) ==
    { o \in [1..Cardinality(keys) -> keys] :
        \A i, j \in DOMAIN o : o[i] = o[j] => i = j }

\* `for variant, budget := range decision.VariantBudgets`
RangeOrdersOf(keys) == RangeOrders(keys)

\* The body of the loop over decision.VariantBudgets for the key order[i].
RECURSIVE ApplyBudgets(_, _, _, _)
ApplyBudgets(decision, prof, order, i) ==
    IF i > Len(order) THEN prof
    ELSE
      LET budget     == decision.VariantBudgets[order[i]]
          variantKey == normalizeVariant(order[i])
          withBudget ==
              [prof EXCEPT !.VariantBudgets =
                  [k \in DOMAIN prof.VariantBudgets \cup {variantKey} |->
                      IF k = variantKey
                      THEN (IF budget.TopK > 0 THEN budget.TopK ELSE 0)
                      ELSE prof.VariantBudgets[k]]]
          next ==
              CASE variantKey = "dense" ->
                     [withBudget EXCEPT
                        !.Retrievers = AppendIfMissing(@, "vector"),
                        !.PerRetrieverTopK =
                            IF budget.TopK > 0 /\ (@ = 0 \/ budget.TopK < @)
                            THEN budget.TopK ELSE @]
                [] variantKey = "sparse" ->
                     [withBudget EXCEPT !.Retrievers = AppendIfMissing(@, "bm25")]
                [] variantKey = "hyde" ->
                     [withBudget EXCEPT
                        !.HYDE.Enable = TRUE,
                        !.HYDE.MaxSeeds = IF budget.TopK > 0 THEN budget.TopK ELSE @]
                [] variantKey = "web" ->
                     [withBudget EXCEPT
                        !.UseWeb = TRUE,
                        !.Retrievers = AppendIfMissing(@, "web")]
                [] OTHER -> withBudget
      IN  IF ~budget.Enable THEN ApplyBudgets(decision, prof, order, i + 1)
          ELSE ApplyBudgets(decision, next, order, i + 1)

\* ApplyDecision(decision, profile): the profiles the call can return, one
\* for every order in which the range over decision.VariantBudgets can run.
ApplyDecision(decision, prof) ==
    IF decision.isNil THEN {prof}
    ELSE
      LET r1 == IF decision.NeedVector THEN <<"vector">> ELSE <<>>
          r2 == IF decision.NeedBM25 THEN Append(r1, "bm25") ELSE r1
          r3 == IF decision.NeedWeb THEN Append(r2, "web") ELSE r2
          p1 == [prof EXCEPT
                   !.Retrievers = r3,
                   !.UseWeb = decision.NeedWeb,
                   !.TopK = IF decision.SuggestedTopK > 0
                               /\ decision.SuggestedTopK <= 100
                            THEN decision.SuggestedTopK ELSE @]
          keys == DOMAIN decision.VariantBudgets
      IN  IF keys = {} THEN {p1}
          ELSE { ApplyBudgets(decision, [p1 EXCEPT !.VariantBudgets = NoBudgets],
                              order, 1) :
                   order \in RangeOrdersOf(keys) }

NoDecision == CHOOSE d \in RoutingDecisions : d.isNil

ProfObsInit ==
    [ stage |-> "configured", configured |-> <<>>, decision |-> NoDecision,
      once |-> <<>> ]

ProfileInit ==
    /\ profile \in RetrievalProfiles
    /\ profObs = [ProfObsInit EXCEPT !.configured = <<profile>>]

ProfileIdle ==
    /\ profile = [ Retrievers |-> <<"vector">>, TopK |-> DefaultTopK,
                   Threshold |-> DefaultThreshold, UseWeb |-> FALSE,
                   PerRetrieverTopK |-> DefaultTopK,
                   HYDE |-> [Enable |-> FALSE, MaxSeeds |-> 0],
                   VariantBudgets |-> NoBudgets ]
    /\ profObs = ProfObsInit

\* SelectByName / SelectDefault: the configured profile, normalized.
ProviderNormalize ==
    /\ profObs.stage = "configured"
    /\ profile' = Normalize(profile)
    /\ profObs' = [profObs EXCEPT !.stage = "normalized"]
    /\ UNCHANGED profRest

\* Orchestrator.Run: the selected profile through normalizeProfile.
OrchestratorNormalize ==
    /\ profObs.stage = "configured"
    /\ \E cfg \in RAGConfigs : profile' = normalizeProfile(cfg, profile)
    /\ profObs' = [profObs EXCEPT !.stage = "normalized"]
    /\ UNCHANGED profRest

\* The router stage: ApplyDecision on the normalized profile.
RouterApply ==
    /\ profObs.stage = "normalized"
    /\ \E d \in RoutingDecisions :
         /\ profile' \in ApplyDecision(d, profile)
         /\ profObs' = [profObs EXCEPT !.stage = "routed", !.decision = d,
                                       !.once = <<profile'>>]
    /\ UNCHANGED profRest

\* ApplyDecision with the same decision on the profile it returned.
RouterApplyAgain ==
    /\ profObs.stage = "routed"
    /\ profile' \in ApplyDecision(profObs.decision, profile)
    /\ profObs' = [profObs EXCEPT !.stage = "routed twice"]
    /\ UNCHANGED profRest

-----------------------------------------------------------------------------
(***************************************************************************)
(* Retrievers: BM25Retriever, WebSearchRetriever, retriever/vector.go,     *)
(* retriever/path.go, and executeSearch of retrieval/provider.go           *)
(*                                                                         *)
(* A document's metadata is nil or a map; the model writes it as a record  *)
(* with the flag isNil and the map kv.                                     *)
(***************************************************************************)

\* Bound of the retriever model: hits in one backend response.
MaxHits == 2

RetrieverTypes == {"vector", "bm25", "path", "web"}

NilMetadata == [isNil |-> TRUE, kv |-> [k \in {} |-> ""]]

MapMetadata(kv) == [isNil |-> FALSE, kv |-> kv]

\* The _source of a search hit, and the metadata a vector store returns
\* with a document: absent, or an object with or without a retriever_type
\* field of its own.
Sources ==
    { NilMetadata,
      MapMetadata([k \in {"title"} |-> "t"]),
      MapMetadata([k \in {"title", "retriever_type"} |->
                      IF k = "title" THEN "t" ELSE "legacy"]) }

\* A hit of a backend: id and source (web: the url and the name).
BackendHits == [id : {"a", "b"}, source : Sources]

BackendResponses == UNION { [1..n -> BackendHits] : n \in 0..MaxHits }

\* What the backend call of a Search gives: an error (embedding, transport,
\* circuit, status outside [200,300), undecodable body) or a response.
BackendOutcomes ==
    [err : {TRUE}, hits : {<<>>}] \cup [err : {FALSE}, hits : BackendResponses]

\* BM25Retriever.Search and PathRetriever.Search: `Metadata: h.Source`.
SourceAsMetadata(hits) ==
    [i \in DOMAIN hits |-> [id |-> hits[i].id, Metadata |-> hits[i].source]]

\* WebSearchRetriever.Search: the metadata is {"title": name, "url": url}.
WebMetadata(hits) ==
    [i \in DOMAIN hits |->
        [id |-> hits[i].id,
         Metadata |-> MapMetadata([k \in {"title", "url"} |->
                                      IF k = "title" THEN "t" ELSE hits[i].id])]]

\* Retriever.Search for the retriever of type typ.  configured is false for a
\* BM25, path or web retriever without endpoint (index, API key): such a
\* retriever returns no document and no error.
Search(typ, configured, outcome) ==
    IF typ # "vector" /\ ~configured THEN [err |-> FALSE, docs |-> <<>>]
    ELSE IF outcome.err THEN [err |-> TRUE, docs |-> <<>>]
    ELSE [err |-> FALSE,
          docs |-> IF typ = "web" THEN WebMetadata(outcome.hits)
                   ELSE SourceAsMetadata(outcome.hits)]

\* The loop of executeSearch: metadata made non-nil, retriever_type set.
Annotated(docs, typ) ==
    [i \in DOMAIN docs |->
        [docs[i] EXCEPT !.Metadata =
            MapMetadata([k \in DOMAIN docs[i].Metadata.kv \cup {"retriever_type"} |->
                           IF k = "retriever_type" THEN typ
                           ELSE docs[i].Metadata.kv[k]])]]

SearchInit ==
    search = [stage |-> "idle", type |-> "", via |-> "", err |-> FALSE,
              docs |-> <<>>]

\* A caller that uses the retriever as it is (Orchestrator.Run calls
\* rr.Search and fuses what it returns).
DirectSearch ==
    /\ \E typ \in RetrieverTypes, configured \in BOOLEAN,
          outcome \in BackendOutcomes :
         LET r == Search(typ, configured, outcome)
         IN  search' = [stage |-> "searched", type |-> typ, via |-> "Search",
                        err |-> r.err, docs |-> r.docs]
    /\ UNCHANGED searchRest

\* defaultProvider.executeSearch: Search, then the annotation of every
\* document; nothing is returned on error.
ExecuteSearch ==
    /\ \E typ \in RetrieverTypes, configured \in BOOLEAN,
          outcome \in BackendOutcomes :
         LET r == Search(typ, configured, outcome)
         IN  search' = [stage |-> "searched", type |-> typ,
                        via |-> "executeSearch", err |-> r.err,
                        docs |-> IF r.err THEN <<>> ELSE Annotated(r.docs, typ)]
    /\ UNCHANGED searchRest

SearchNext == DirectSearch \/ ExecuteSearch

-----------------------------------------------------------------------------
(***************************************************************************)
(* The query pipeline: RAGClient.runEnhancedPipeline (rag_client.go) and   *)
(* Orchestrator.Run (orchestrator/orchestrator.go)                         *)
(*                                                                         *)
(* pipe.pc is the stage the query is about to run, pipe.trace the stages   *)
(* it has been through.  A document of the result list is its id and       *)
(* whether its content went through CompressText.                          *)
(***************************************************************************)

\* The two implementations of the pipeline and what is configured: router
\* and L1 cache exist in runEnhancedPipeline only.
PipelineConfigs ==
    { c \in [ impl     : {"enhanced", "orchestrator"},
              router   : BOOLEAN,
              gating   : BOOLEAN,
              cache    : BOOLEAN,
              rerank   : BOOLEAN,
              compress : BOOLEAN,
              crag     : BOOLEAN,
              failMode : {"", "open", "closed"} ] :
        c.impl = "orchestrator" => ~c.router /\ ~c.cache }

Doc(id) == [id |-> id, compressed |-> FALSE]

\* The result lists a retrieval, a cache entry or a reranker can give.
ResultLists ==
    { <<>>, <<Doc("a")>>, <<Doc("a"), Doc("b")>>, <<Doc("b"), Doc("a")>> }

NoEvent == [stage |-> "", failed |-> FALSE]

Event(stage, failed) == [stage |-> stage, failed |-> failed]

PipeInit ==
    \E cfg \in PipelineConfigs :
        pipe = [ cfg |-> cfg, pc |-> "profile", results |-> <<>>, err |-> "nil",
                 profile |-> "none", published |-> FALSE, event |-> NoEvent,
                 trace |-> <<>> ]

PipeIdle ==
    pipe = [ cfg |-> "none", pc |-> "idle", results |-> <<>>, err |-> "nil",
             profile |-> "none", published |-> FALSE, event |-> NoEvent,
             trace |-> <<>> ]

\* SelectDefault / SelectByName and Normalize (selectProfile and
\* normalizeProfile in Orchestrator.Run).
PipeProfile ==
    /\ pipe.pc = "profile"
    /\ pipe' = [pipe EXCEPT !.pc = "router", !.profile = "base",
                            !.event = Event("profile", FALSE),
                            !.trace = Append(@, pipe.pc)]
    /\ UNCHANGED pipeRest

\* The router stage: on an error of Route the profile stays as it is, a
\* decision is applied to it.
PipeRouter ==
    /\ pipe.pc = "router"
    /\ IF pipe.cfg.router
       THEN \E failed \in BOOLEAN :
              pipe' = [pipe EXCEPT !.pc = "gating",
                                   !.profile = IF failed THEN @ ELSE "routed",
                                   !.event = Event("router", failed),
                                   !.trace = Append(@, pipe.pc)]
       ELSE pipe' = [pipe EXCEPT !.pc = "gating", !.event = NoEvent,
                                 !.trace = Append(@, pipe.pc)]
    /\ UNCHANGED pipeRest

\* The gating stage: a failed vector preflight gives a decision that neither
\* suppresses nor forces web.
PipeGating ==
    /\ pipe.pc = "gating"
    /\ IF pipe.cfg.gating
       THEN \E failed \in BOOLEAN :
              pipe' = [pipe EXCEPT !.pc = "probe",
                                   !.profile = IF failed THEN @ ELSE "gated",
                                   !.event = Event("gating", failed),
                                   !.trace = Append(@, pipe.pc)]
       ELSE pipe' = [pipe EXCEPT !.pc = "probe", !.event = NoEvent,
                                 !.trace = Append(@, pipe.pc)]
    /\ UNCHANGED pipeRest

\* Variant of AfterProbe that goes on to the retrieval after a hit.
ProbeGoesOn(hit) == "retrieve"

\* `if cached, ok := r.l1Cache.Get(cacheKey); ok { ... return ... }`
AfterProbe(hit) == IF hit THEN "done" ELSE "retrieve"

\* The cache probe: a hit returns the cached list at once.
PipeProbe ==
    /\ pipe.pc = "probe"
    /\ \/ /\ pipe.cfg.cache
          /\ \E cached \in ResultLists \ {<<>>} :
               pipe' = [pipe EXCEPT !.pc = AfterProbe(TRUE), !.results = cached,
                                    !.event = Event("probe", FALSE),
                                    !.trace = Append(@, pipe.pc)]
       \/ pipe' = [pipe EXCEPT !.pc = AfterProbe(FALSE), !.event = NoEvent,
                               !.trace = Append(@, pipe.pc)]
    /\ UNCHANGED pipeRest

\* Retrieval and fusion.
PipeRetrieve ==
    /\ pipe.pc = "retrieve"
    /\ \E results \in ResultLists :
         pipe' = [pipe EXCEPT !.pc = "rerank", !.results = results,
                              !.event = Event("retrieve", FALSE),
                              !.trace = Append(@, pipe.pc)]
    /\ UNCHANGED pipeRest

\* Variant of AfterRerank that takes whatever the reranker returned.
RerankReplaces(results, failed, reranked) == reranked

\* `if reranked, err := Rerank(...); err == nil && len(reranked) > 0`
AfterRerank(results, failed, reranked) ==
    IF ~failed /\ Len(reranked) > 0 THEN reranked ELSE results

\* The rerank stage; a failing reranker returns no list.
PipeRerank ==
    /\ pipe.pc = "rerank"
    /\ IF Len(pipe.results) > 0 /\ pipe.cfg.rerank
       THEN \E failed \in BOOLEAN, reranked \in ResultLists :
              /\ failed => reranked = <<>>
              /\ pipe' = [pipe EXCEPT
                            !.pc = "compress",
                            !.results = AfterRerank(@, failed, reranked),
                            !.event = Event("rerank", failed),
                            !.trace = Append(@, pipe.pc)]
       ELSE pipe' = [pipe EXCEPT !.pc = "compress", !.event = NoEvent,
                                 !.trace = Append(@, pipe.pc)]
    /\ UNCHANGED pipeRest

\* The compression stage: CompressText on every document; it has no error.
PipeCompress ==
    /\ pipe.pc = "compress"
    /\ IF Len(pipe.results) > 0 /\ pipe.cfg.compress
       THEN pipe' = [pipe EXCEPT
                       !.pc = "crag",
                       !.results = [i \in DOMAIN @ |-> [@[i] EXCEPT !.compressed = TRUE]],
                       !.event = Event("compress", FALSE),
                       !.trace = Append(@, pipe.pc)]
       ELSE pipe' = [pipe EXCEPT !.pc = "crag", !.event = NoEvent,
                                 !.trace = Append(@, pipe.pc)]
    /\ UNCHANGED pipeRest

\* CorrectAction, IncorrectAction and AmbiguousAction as the pipelines call
\* them: without refiner, web searcher or external results.
VerdictAction(verdict, results) ==
    CASE verdict = "correct"   -> results
      [] verdict = "incorrect" -> <<>>
      [] verdict = "ambiguous" -> results
      [] OTHER                 -> results

\* Orchestrator.Run: fm is "open" unless crag.fail_mode is set.
FailModeOf(cfg) == IF cfg.failMode # "" THEN cfg.failMode ELSE "open"

\* The CRAG stage.  Orchestrator.Run returns from the function on an
\* evaluator error, with the error when the fail mode is "closed";
\* runEnhancedPipeline does nothing on an evaluator error.
PipeCRAG ==
    /\ pipe.pc = "crag"
    /\ IF Len(pipe.results) > 0 /\ pipe.cfg.crag
       THEN \E outcome \in {"error", "correct", "incorrect", "ambiguous"} :
              IF outcome = "error"
              THEN IF pipe.cfg.impl = "orchestrator"
                   THEN IF FailModeOf(pipe.cfg) = "closed"
                        THEN pipe' = [pipe EXCEPT !.pc = "done", !.results = <<>>,
                                                  !.err = "evaluator",
                                                  !.event = Event("crag", TRUE),
                                                  !.trace = Append(@, pipe.pc)]
                        ELSE pipe' = [pipe EXCEPT !.pc = "done",
                                                  !.event = Event("crag", TRUE),
                                                  !.trace = Append(@, pipe.pc)]
                   ELSE pipe' = [pipe EXCEPT !.pc = "publish",
                                             !.event = Event("crag", TRUE),
                                             !.trace = Append(@, pipe.pc)]
              ELSE pipe' = [pipe EXCEPT
                              !.pc = IF pipe.cfg.impl = "orchestrator"
                                     THEN "done" ELSE "publish",
                              !.results = VerdictAction(outcome, @),
                              !.event = Event("crag", FALSE),
                              !.trace = Append(@, pipe.pc)]
       ELSE pipe' = [pipe EXCEPT
                       !.pc = IF pipe.cfg.impl = "orchestrator"
                              THEN "done" ELSE "publish",
                       !.event = NoEvent,
                       !.trace = Append(@, pipe.pc)]
    /\ UNCHANGED pipeRest

\* The cache publish of runEnhancedPipeline, and its return.
PipePublish ==
    /\ pipe.pc = "publish"
    /\ pipe' = [pipe EXCEPT
                  !.pc = "done",
                  !.published = pipe.cfg.cache /\ Len(pipe.results) > 0,
                  !.event = Event("publish", FALSE),
                  !.trace = Append(@, pipe.pc)]
    /\ UNCHANGED pipeRest

PipeNext ==
    \/ PipeProfile
    \/ PipeRouter
    \/ PipeGating
    \/ PipeProbe
    \/ PipeRetrieve
    \/ PipeRerank
    \/ PipeCompress
    \/ PipeCRAG
    \/ PipePublish

-----------------------------------------------------------------------------
(***************************************************************************)
(* The feedback manager and the gating provider: feedback/manager.go and   *)
(* gating (Evaluate, ApplyDecision, applyFeedbackAdjustments)              *)
(*                                                                         *)
(* A manager value is the record of Manager: cfg, history (key -> the      *)
(* verdict records of the key, oldest first), lastAdjust (key -> time of   *)
(* the last adjustment; a key without entry has the zero time) and         *)
(* maxPerKey.  Times are whole seconds.  Scores and gates are given in     *)
(* hundredths: 85 is 0.85.                                                 *)
(***************************************************************************)

\* crag.Verdict
Verdicts == {"correct", "ambiguous", "incorrect"}

\* The cap of NewManager when no window is configured, and the window of
\* GetTrend when none is given.
DefaultMaxPerKey == 100

DefaultWindow == 5

NoHistory == [k \in {} |-> <<>>]

NoAdjust == [k \in {} |-> 0]

\* config.FeedbackConfig
FeedbackConfig(window, incorrect, ambiguous, confident, step, max, web, cooldown) ==
    [ Window      |-> window,
      Thresholds  |-> [Incorrect |-> incorrect, Ambiguous |-> ambiguous,
                       Confident |-> confident],
      Adjustments |-> [TopKStep |-> step, TopKMax |-> max,
                       EnableForceWebOnLow |-> web],
      CooldownSec |-> cooldown ]

\* The zero value of config.FeedbackConfig
ZeroFeedbackConfig == FeedbackConfig(0, 0, 0, 0, 0, 0, FALSE, 0)

\* NewManager
NewManager(cfg) ==
    [ cfg        |-> cfg,
      history    |-> NoHistory,
      lastAdjust |-> NoAdjust,
      maxPerKey  |-> IF cfg.Window > 0 THEN cfg.Window * 5 ELSE DefaultMaxPerKey ]

\* `if key == "" { key = m.defaultKey }`
ManagerKey(key) == IF key = "" THEN "_global" ELSE key

\* m.history[key] of a Go map: the empty slice when the key is missing
HistoryOf(m, key) ==
    IF key \in DOMAIN m.history THEN m.history[key] ELSE <<>>

\* Variant of KeepNewest that keeps the oldest records.
KeepOldest(history, maxPerKey) ==
    IF Len(history) > maxPerKey THEN SubSeq(history, 1, maxPerKey) ELSE history

\* `history = history[len(history)-m.maxPerKey:]`
KeepNewest(history, maxPerKey) ==
    IF Len(history) > maxPerKey
    THEN SubSeq(history, Len(history) - maxPerKey + 1, Len(history))
    ELSE history

\* Manager.Record at the time t
Record(m, key, verdict, confidence, t) ==
    LET k   == ManagerKey(key)
        rec == [Timestamp |-> t, Verdict |-> verdict, Confidence |-> confidence]
        history == KeepNewest(Append(HistoryOf(m, k), rec), m.maxPerKey)
    IN  [m EXCEPT !.history =
            [j \in DOMAIN m.history \cup {k} |->
                IF j = k THEN history ELSE m.history[j]]]

\* The zero value of Trend
NoTrend ==
    [ Total |-> 0, Incorrect |-> 0, Ambiguous |-> 0, Confident |-> 0,
      ConsecutiveIncorrect |-> 0, ConsecutiveAmbiguous |-> 0,
      ConsecutiveConfident |-> 0, LastVerdicts |-> <<>>, LastUpdated |-> 0 ]

\* One turn of the loop of GetTrend on the record at the index i.
TrendStep(trend, record) ==
    CASE record.Verdict = "incorrect" ->
           [trend EXCEPT !.Incorrect = @ + 1,
                         !.ConsecutiveIncorrect = @ + 1,
                         !.ConsecutiveAmbiguous = 0,
                         !.ConsecutiveConfident = 0]
      [] record.Verdict = "ambiguous" ->
           [trend EXCEPT !.Ambiguous = @ + 1,
                         !.ConsecutiveAmbiguous = @ + 1,
                         !.ConsecutiveIncorrect = 0,
                         !.ConsecutiveConfident = 0]
      [] record.Verdict = "correct" ->
           [trend EXCEPT !.Confident = @ + 1,
                         !.ConsecutiveConfident = @ + 1,
                         !.ConsecutiveIncorrect = 0,
                         !.ConsecutiveAmbiguous = 0]
      [] OTHER ->
           [trend EXCEPT !.ConsecutiveIncorrect = 0,
                         !.ConsecutiveAmbiguous = 0,
                         !.ConsecutiveConfident = 0]

\* `for i := len(history) - 1; i >= 0; i--`: the loop of GetTrend from the
\* index i (1-based) down to the first record.
RECURSIVE TrendLoop(_, _, _)
TrendLoop(history, i, trend) ==
    IF i < 1 THEN trend
    ELSE TrendLoop(history, i - 1, TrendStep(trend, history[i]))

\* Manager.GetTrend
GetTrend(m, key, window) ==
    LET all == HistoryOf(m, ManagerKey(key))
        w   == IF window > 0 THEN window
               ELSE IF m.cfg.Window > 0 THEN m.cfg.Window ELSE DefaultWindow
        history == KeepNewest(all, w)
    IN  IF Len(all) = 0 THEN NoTrend
        ELSE TrendLoop(history, Len(history),
                 [NoTrend EXCEPT
                    !.Total = Len(history),
                    !.LastVerdicts = [i \in DOMAIN history |-> history[i].Verdict],
                    !.LastUpdated = history[Len(history)].Timestamp])

\* Manager.InCooldown at the time t, for a cooldown in seconds
InCooldown(m, key, cooldown, t) ==
    /\ cooldown > 0
    /\ ManagerKey(key) \in DOMAIN m.lastAdjust
    /\ t - m.lastAdjust[ManagerKey(key)] < cooldown

\* Manager.MarkAdjustment at the time t
MarkAdjustment(m, key, t) ==
    [m EXCEPT !.lastAdjust =
        [j \in DOMAIN m.lastAdjust \cup {ManagerKey(key)} |->
            IF j = ManagerKey(key) THEN t ELSE m.lastAdjust[j]]]

\* The gating provider: its vector retriever (nil or not), its feedback
\* manager (nil or not) and the feedback configuration.
GatingProvider(hasVector, hasFeedback, cfg, mgr) ==
    [ hasVector |-> hasVector, hasFeedback |-> hasFeedback,
      feedbackCfg |-> cfg, feedbackMgr |-> mgr ]

\* The preflight errs or returns nothing (-1), or returns a top score.
PreflightFailed == -1

\* filterRetrievers
filterRetrievers(retrievers, typ) ==
    SelectSeq(retrievers, LAMBDA r : ~ContainsStr(r, typ))

\* A reason is the text before the first ':' and the numbers printed after.
Reason(tag, score, gate) == <<tag, score, gate>>

\* Variant of SuppressOnHighScore that needs a score above the gate.
SuppressAboveGate(prof, topScore) ==
    prof.VectorGate > 0 /\ topScore > prof.VectorGate

\* `if profile.VectorGate > 0 && topScore >= profile.VectorGate`
SuppressOnHighScore(prof, topScore) ==
    prof.VectorGate > 0 /\ topScore >= prof.VectorGate

\* Variant of ForceOnLowScore that forces web although it is in the profile.
ForceAlthoughPresent(prof, low, hasWeb) == low /\ prof.ForceWebOnLow

\* `if profile.ForceWebOnLow { if !profile.UseWeb && !containsRetriever(...)`
ForceOnLowScore(prof, low, hasWeb) ==
    low /\ prof.ForceWebOnLow /\ ~hasWeb

\* defaultProvider.Evaluate of gating, for the outcome of the preflight
Evaluate(p, prof, preflight) ==
    LET none == [ShouldSuppressWeb |-> FALSE, ShouldForceWeb |-> FALSE,
                 TopScore |-> 0, Reason |-> <<>>]
        topScore == preflight
        hasWeb == prof.UseWeb \/ containsRetriever(prof.Retrievers, "web")
        high == SuppressOnHighScore(prof, topScore) /\ hasWeb
        low  == prof.VectorLowGate > 0 /\ topScore < prof.VectorLowGate
        force == ForceOnLowScore(prof, low, hasWeb)
        d1 == IF high
              THEN [none EXCEPT !.TopScore = topScore,
                                !.ShouldSuppressWeb = TRUE,
                                !.Reason = Reason("suppress_web", topScore,
                                                  prof.VectorGate)]
              ELSE [none EXCEPT !.TopScore = topScore]
        d2 == IF force
              THEN [d1 EXCEPT !.ShouldForceWeb = TRUE,
                              !.Reason = Reason("force_web", topScore,
                                                prof.VectorLowGate)]
              ELSE IF low /\ ~prof.ForceWebOnLow
              THEN [d1 EXCEPT !.Reason = Reason("low_score", topScore,
                                                prof.VectorLowGate)]
              ELSE d1
    IN  IF ~p.hasVector
        THEN [none EXCEPT !.Reason = Reason("no_vector_retriever", 0, 0)]
        ELSE IF prof.VectorGate <= 0 /\ prof.VectorLowGate <= 0
        THEN [none EXCEPT !.Reason = Reason("gating_disabled", 0, 0)]
        ELSE IF preflight = PreflightFailed
        THEN [none EXCEPT !.Reason = Reason("preflight_failed", 0, 0)]
        ELSE IF d2.Reason = <<>>
        THEN [d2 EXCEPT !.Reason = Reason("neutral", topScore, 0)]
        ELSE d2

\* adjustments.topk_step when it is not configured
DefaultTopKStep == 2

\* The floor of top_k after a decrease
TopKFloor == 3

\* `profile.TopK -= step; if profile.TopK < 3 { profile.TopK = 3 }`
DecreaseTopK(topK, step) ==
    IF topK - step < TopKFloor THEN TopKFloor ELSE topK - step

\* `p.feedbackCfg.Adjustments.EnableForceWebOnLow && (trend.ConsecutiveIncorrect
\* >= thresholds.Incorrect || trend.ConsecutiveAmbiguous >= thresholds.Ambiguous)`
ForceWebOnTrend(cfg, trend) ==
    /\ cfg.Adjustments.EnableForceWebOnLow
    /\ \/ trend.ConsecutiveIncorrect >= cfg.Thresholds.Incorrect
       \/ trend.ConsecutiveAmbiguous >= cfg.Thresholds.Ambiguous

\* applyFeedbackAdjustments at the time t: the profile returned, the manager
\* afterwards, whether the profile was adjusted and the trend looked at.
applyFeedbackAdjustments(p, prof, t) ==
    LET m      == p.feedbackMgr
        cfg    == p.feedbackCfg
        key    == IF prof.Name = "" THEN "default" ELSE prof.Name
        trend  == GetTrend(m, key, cfg.Window)
        step   == IF cfg.Adjustments.TopKStep <= 0 THEN DefaultTopKStep
                  ELSE cfg.Adjustments.TopKStep
        th     == cfg.Thresholds
        up     == \/ th.Incorrect > 0 /\ trend.ConsecutiveIncorrect >= th.Incorrect
                  \/ th.Ambiguous > 0 /\ trend.ConsecutiveAmbiguous >= th.Ambiguous
        down   == /\ ~up
                  /\ th.Confident > 0
                  /\ trend.ConsecutiveConfident >= th.Confident
                  /\ prof.TopK > step
        k1     == IF up THEN prof.TopK + step
                  ELSE IF down THEN DecreaseTopK(prof.TopK, step)
                  ELSE prof.TopK
        max    == cfg.Adjustments.TopKMax
        k2     == IF max > 0 /\ k1 > max THEN max ELSE k1
        k3     == IF k2 <= 0 THEN 1 ELSE k2
        per    == IF prof.PerRetrieverTopK > k3 \/ prof.PerRetrieverTopK = 0
                  THEN k3 ELSE prof.PerRetrieverTopK
        p1     == [prof EXCEPT !.TopK = k3, !.PerRetrieverTopK = per]
        p2     == IF ForceWebOnTrend(cfg, trend)
                  THEN [p1 EXCEPT !.Retrievers = AppendIfMissing(@, "web"),
                                  !.UseWeb = TRUE]
                  ELSE p1
        same   == [profile |-> prof, mgr |-> m, adjusted |-> FALSE,
                   trend |-> NoTrend]
    IN  IF ~p.hasFeedback THEN same
        ELSE IF InCooldown(m, key, cfg.CooldownSec, t) THEN same
        ELSE IF trend.Total = 0 THEN same
        ELSE IF up \/ down
        THEN [profile |-> p2, mgr |-> MarkAdjustment(m, key, t),
              adjusted |-> TRUE, trend |-> trend]
        ELSE [same EXCEPT !.trend = trend]

\* The gating provider's ApplyDecision at the time t
GatingApplyDecision(p, decision, prof, t) ==
    LET p1 == IF decision.ShouldSuppressWeb
              THEN [prof EXCEPT !.UseWeb = FALSE,
                                !.Retrievers = filterRetrievers(@, "web")]
              ELSE prof
        p2 == IF decision.ShouldForceWeb
              THEN [p1 EXCEPT !.UseWeb = TRUE,
                              !.Retrievers = AppendIfMissing(@, "web")]
              ELSE p1
    IN  applyFeedbackAdjustments(p, p2, t)

-----------------------------------------------------------------------------
(***************************************************************************)
(* The profile provider over a sequence of queries: profile/provider.go    *)
(* (NewProvider, SelectByName, SelectDefault), the profile, router and     *)
(* gating stages of runEnhancedPipeline, router.ApplyDecision and the      *)
(* gating provider's ApplyDecision.                                        *)
(*                                                                         *)
(* A profile is handed out as a copy of the struct; the copy's             *)
(* VariantBudgets is the same map as the configured profile's when that    *)
(* map is not nil.  provider.profiles[i].VariantBudgets is the content of  *)
(* the configured map, nilBudgets tells that it is nil; Shared tells that  *)
(* a query's profile still refers to the configured map.                   *)
(***************************************************************************)

\* The number of queries a behaviour runs.
MaxQueries == 2

\* The profiles of pipeline.retrieval_profiles, without their names.
\* VectorGate is 1 when vector_gate or vector_low_gate is set.
ProviderProfiles ==
    [ Retrievers       : {<<>>, <<"bm25", "web">>},
      TopK             : {0, 5},
      Threshold        : {Rat(7, 10)},
      UseWeb           : BOOLEAN,
      PerRetrieverTopK : {0},
      HYDE             : {[Enable |-> FALSE, MaxSeeds |-> 0]},
      VariantBudgets   : {NoBudgets, [k \in {"dense"} |-> 4]},
      VectorGate       : {0, 1},
      nilBudgets       : BOOLEAN ]

\* A nil map has no entries.
WellFormedProfile(p) == p.nilBudgets => p.VariantBudgets = NoBudgets

ProfileNames == <<"p1", "p2">>

\* NewProvider: the provider keeps the configured slice itself.
NewProvider(profiles) ==
    [i \in DOMAIN profiles |->
        [Name |-> ProfileNames[i]] @@ profiles[i]]

\* The profile a selection returns when no profile matches.
EmptyProfile ==
    [ Name |-> "", Retrievers |-> <<>>, TopK |-> 0, Threshold |-> RatZero,
      UseWeb |-> FALSE, PerRetrieverTopK |-> 0,
      HYDE |-> [Enable |-> FALSE, MaxSeeds |-> 0],
      VariantBudgets |-> NoBudgets, VectorGate |-> 0, nilBudgets |-> TRUE ]

\* A query's profile: the struct copy and whether its VariantBudgets is the
\* configured map of profiles[Index].
Selected(prof, index) ==
    [prof |-> prof, Index |-> index, Shared |-> ~prof.nilBudgets]

\* defaultProvider.SelectByName
SelectByName(profiles, name) ==
    IF \E i \in DOMAIN profiles : profiles[i].Name = name
    THEN LET i == CHOOSE j \in DOMAIN profiles :
                    /\ profiles[j].Name = name
                    /\ \A k \in DOMAIN profiles :
                         profiles[k].Name = name => j <= k
         IN  Selected(Normalize(profiles[i]), i)
    ELSE Selected(EmptyProfile, 0)

\* defaultProvider.SelectDefault (profiles is never empty in the model)
SelectDefault(profiles) == Selected(Normalize(profiles[1]), 1)

\* The names the router can put into decision.ProfileName.
DecisionProfileNames == {"", "p2", "other"}

\* The trends applyFeedbackAdjustments can see, and whether
\* adjustments.enable_force_web_on_low is set.
FeedbackTrends == {"none", "incorrect", "confident"}

\* The gating provider of a query on prof whose feedback manager reports the
\* trend: thresholds of one verdict, topk_step and topk_max not configured,
\* no cooldown.
TrendProvider(prof, trend, forceWeb) ==
    LET cfg == FeedbackConfig(0, 1, 1, 1, 0, 0, forceWeb, 0)
        key == IF prof.Name = "" THEN "default" ELSE prof.Name
        m   == NewManager(cfg)
    IN  GatingProvider(TRUE, TRUE, cfg,
            IF trend = "none" THEN m
            ELSE Record(m, key,
                        IF trend = "incorrect" THEN "incorrect" ELSE "correct",
                        0, 0))

\* The decisions gating.Evaluate can return for a profile.
GatingDecisions(prof) ==
    { d \in [ShouldSuppressWeb : BOOLEAN, ShouldForceWeb : BOOLEAN] :
        /\ ~(d.ShouldSuppressWeb /\ d.ShouldForceWeb)
        /\ d.ShouldSuppressWeb =>
             (prof.UseWeb \/ containsRetriever(prof.Retrievers, "web"))
        /\ d.ShouldForceWeb =>
             (~prof.UseWeb /\ ~containsRetriever(prof.Retrievers, "web")) }

\* The gating provider of a client without pipeline.feedback.
PlainGatingProvider ==
    GatingProvider(TRUE, FALSE, ZeroFeedbackConfig, NewManager(ZeroFeedbackConfig))

\* What follows router.ApplyDecision in runEnhancedPipeline: Normalize, then
\* the gating decision applied to the profile and Normalize again.
GatingStage ==
    /\ profObs.stage = "routed"
    /\ LET prof1 == Normalize(profile)
       IN  \E g \in GatingDecisions(prof1) :
             profile' = Normalize(GatingApplyDecision(PlainGatingProvider, g,
                                                     prof1, 0).profile)
    /\ profObs' = [profObs EXCEPT !.stage = "gated"]
    /\ UNCHANGED profRest

ProfileNext ==
    \/ ProviderNormalize
    \/ OrchestratorNormalize
    \/ RouterApply
    \/ RouterApplyAgain
    \/ GatingStage

\* `delete(profile.VariantBudgets, k)` and `profile.VariantBudgets[key] = v`
\* write the map the profile refers to: the configured map of
\* profiles[sel.Index] when the profile still shares it.
WritesConfiguredMap(decision, sel) ==
    /\ ~decision.isNil
    /\ DOMAIN decision.VariantBudgets # {}
    /\ sel.Shared

\* The provider's profiles after router.ApplyDecision returned routed for
\* the selected profile sel.
AfterApplyDecision(profiles, decision, sel, routed) ==
    IF WritesConfiguredMap(decision, sel)
    THEN [profiles EXCEPT ![sel.Index].VariantBudgets = routed.VariantBudgets]
    ELSE profiles

\* The decisions the router returns in the model.
ProviderDecisions ==
    {d \in RoutingDecisions : ~d.NeedBM25 /\ d.SuggestedTopK <= 100}

\* What the router stage can do: there is no router, Route fails, or Route
\* returns a decision (possibly nil) that may name a profile.
RouterOutcomes ==
    [hasRouter : {FALSE}, routeErr : {FALSE}, decision : {NoDecision},
     name : {""}]
    \cup [hasRouter : {TRUE}, routeErr : {TRUE}, decision : {NoDecision},
          name : {""}]
    \cup [hasRouter : {TRUE}, routeErr : {FALSE}, decision : {NoDecision},
          name : {""}]
    \cup [hasRouter : {TRUE}, routeErr : {FALSE},
          decision : ProviderDecisions \ {NoDecision},
          name : DecisionProfileNames]

\* What the gating stage can do for prof: it is skipped, or Evaluate
\* returns a decision and the feedback manager reports a trend.
GatingOutcomes(prof) ==
    [hasGating : {FALSE}, decision : {[ShouldSuppressWeb |-> FALSE,
                                       ShouldForceWeb |-> FALSE]},
     trend : {"none"}, forceWeb : {FALSE}]
    \cup (IF prof.VectorGate > 0
          THEN [hasGating : {TRUE}, decision : GatingDecisions(prof),
                trend : FeedbackTrends, forceWeb : BOOLEAN]
          ELSE {})

ProviderInit ==
    \E ps \in UNION {[1..n -> ProviderProfiles] : n \in 1..2} :
      /\ \A i \in DOMAIN ps : WellFormedProfile(ps[i])
      /\ Len(ps) = 2 => ps[2].VectorGate = 0 /\ ps[2].TopK = 5 /\ ~ps[2].UseWeb
      /\ provider = [ profiles |-> NewProvider(ps), configured |-> NewProvider(ps),
                      queries |-> 0, useWeb |-> FALSE ]

ProviderIdle ==
    provider = [ profiles |-> <<>>, configured |-> <<>>, queries |-> 0,
                 useWeb |-> FALSE ]

\* The profile, router and gating stages of one query of
\* runEnhancedPipeline.  The query's profile is local to the query; what
\* stays of it is whether the query went on to use the web (useWeb).
ProviderQuery ==
    /\ provider.queries < MaxQueries
    /\ \E r \in RouterOutcomes :
         LET base    == SelectDefault(provider.profiles)
             d       == r.decision
             applies == r.hasRouter /\ ~r.routeErr /\ ~d.isNil
             named   == IF applies /\ r.name # ""
                        THEN SelectByName(provider.profiles, r.name)
                        ELSE Selected(EmptyProfile, 0)
             sel     == IF named.prof.Name # "" THEN named ELSE base
         IN  \E routed \in (IF applies THEN ApplyDecision(d, sel.prof)
                            ELSE {sel.prof}) :
               LET prof1 == IF applies THEN Normalize(routed) ELSE routed
               IN  \E g \in GatingOutcomes(prof1) :
                     provider' =
                       [provider EXCEPT
                          !.profiles =
                              IF applies
                              THEN AfterApplyDecision(@, d, sel, routed)
                              ELSE @,
                          !.queries = @ + 1,
                          !.useWeb =
                              IF g.hasGating
                              THEN Normalize(GatingApplyDecision(
                                       TrendProvider(prof1, g.trend, g.forceWeb),
                                       g.decision, prof1, 0).profile).UseWeb
                              ELSE prof1.UseWeb]
    /\ UNCHANGED providerRest

ProviderNext == ProviderQuery

-----------------------------------------------------------------------------
(***************************************************************************)
(* The LRU cache: cache/lru.go                                             *)
(*                                                                         *)
(* A cache value of the model is the record of lruCache: capacity, ttl,    *)
(* order (the keys of the list, front first) and items (key -> value and   *)
(* expiry).  Times are whole seconds; the expiry 0 is the zero time.       *)
(***************************************************************************)

\* The defaults of NewLRU: 512 entries, one minute.
DefaultCapacity == 512

DefaultTTLSeconds == 60

NoItems == [k \in {} |-> 0]

\* NewLRU
NewLRU(capacity, ttl) ==
    [ capacity |-> IF capacity <= 0 THEN DefaultCapacity ELSE capacity,
      ttl      |-> IF ttl <= 0 THEN DefaultTTLSeconds ELSE ttl,
      items    |-> NoItems,
      order    |-> <<>> ]

\* computeExpiry at the time t
computeExpiry(c, ttl, t) ==
    LET d == IF ttl <= 0 THEN c.ttl ELSE ttl
    IN  IF d <= 0 THEN 0 ELSE t + d

\* list.MoveToFront and list.PushFront
MoveToFront(order, key) == <<key>> \o SelectSeq(order, LAMBDA k : k # key)

\* removeEntry
removeEntry(c, key) ==
    [c EXCEPT !.order = SelectSeq(@, LAMBDA k : k # key),
              !.items = [k \in DOMAIN @ \ {key} |-> @[k]]]

\* Variant of StillValid that still accepts the entry at its expiry time.
ValidAtExpiry(ent, t) == ent.expires = 0 \/ t <= ent.expires

\* `ent.expires.IsZero() || time.Now().Before(ent.expires)`
StillValid(ent, t) == ent.expires = 0 \/ t < ent.expires

\* Variant of Back that takes the front of the list.
Front(order) == order[1]

\* c.order.Back(): the key evictOldest removes
Back(order) == order[Len(order)]

\* evictOldest
evictOldest(c) ==
    IF Len(c.order) = 0 THEN c
    ELSE IF Back(c.order) \in DOMAIN c.items THEN removeEntry(c, Back(c.order))
    ELSE c

\* Get at the time t: the cache afterwards, the value and ok
Get(c, key, t) ==
    IF key \in DOMAIN c.items
    THEN IF StillValid(c.items[key], t)
         THEN [ cache |-> [c EXCEPT !.order = MoveToFront(@, key)],
                value |-> c.items[key].value, ok |-> TRUE ]
         ELSE [cache |-> removeEntry(c, key), value |-> "nil", ok |-> FALSE]
    ELSE [cache |-> c, value |-> "nil", ok |-> FALSE]

\* `if len(c.items) >= c.capacity`
IsFull(c) == Cardinality(DOMAIN c.items) >= c.capacity

\* Set at the time t
Set(c, key, value, ttl, t) ==
    LET ent == [value |-> value, expires |-> computeExpiry(c, ttl, t)]
    IN  IF key \in DOMAIN c.items
        THEN [c EXCEPT !.items[key] = ent, !.order = MoveToFront(@, key)]
        ELSE LET c1 == IF IsFull(c) THEN evictOldest(c) ELSE c
             IN  [c1 EXCEPT !.order = <<key>> \o @,
                            !.items = [k \in DOMAIN @ \cup {key} |->
                                          IF k = key THEN ent ELSE @[k]]]

\* Purge
Purge(c) == [c EXCEPT !.items = NoItems, !.order = <<>>]

-----------------------------------------------------------------------------
(***************************************************************************)
(* The L1 cache and the fusion weights version: runEnhancedPipeline        *)
(* (rag_client.go), fuseResults (retrieval/provider.go) and the metadata   *)
(* of the learned strategy (fusion/learned.go).                            *)
(*                                                                         *)
(* Weights versions are numbers; 0 is the empty version string.  l1.store  *)
(* is the version of the snapshot the weights store serves, l1.metadata    *)
(* the version the learned strategy recorded at its last run.  A cached    *)
(* value is the version of the weights it was fused with.                  *)
(***************************************************************************)

\* The versions the weights store goes through, and the length of a
\* behaviour in seconds and in queries.
MaxVersion == 2

MaxClock == 2

MaxL1Queries == 3

L1Queries == {"q1", "q2"}

\* The L1 configurations: capacity and ttl of pipeline.cache.l1
L1Configs == [capacity : {1, 2}, ttl : {0, 1}]

\* The defaults NewRAGClient applies to pipeline.cache.l1: two minutes and
\* 500 entries.
DefaultL1TTLSeconds == 120

DefaultL1MaxEntries == 500

\* The cache NewRAGClient creates for an enabled pipeline.cache.l1
NewL1Cache(cfg) ==
    NewLRU(IF cfg.capacity <= 0 THEN DefaultL1MaxEntries ELSE cfg.capacity,
           IF cfg.ttl <= 0 THEN DefaultL1TTLSeconds ELSE cfg.ttl)

\* buildCacheKey: the query and the weights version the client saw last
\* (profile, index version and rerank top-n do not change in the model).
buildCacheKey(query, cacheFusionVersion) == <<query, cacheFusionVersion>>

\* fuseResults hands to RecordFusion the weights_version of the strategy's
\* metadata; the learned strategy stores it when it fuses with a snapshot
\* (ran), and keeps the one of its last run when the fallback strategy fuses.
RecordedVersion(ran, store, metadata) == IF ran THEN store ELSE metadata

\* `version != "" && r.cacheFusionVersion != version`
SeesNewVersion(cacheFusionVersion, version) ==
    version # 0 /\ cacheFusionVersion # version

\* `if r.l1Cache != nil && r.cacheFusionVersion != ""`
PurgesOnNewVersion(cacheFusionVersion) == cacheFusionVersion # 0

L1Init ==
    \E cfg \in L1Configs :
      l1 = [ cache |-> NewL1Cache(cfg), cacheFusionVersion |-> 0,
             store |-> 1, metadata |-> 0, clock |-> 0, queries |-> 0,
             changed |-> FALSE, before |-> {}, sinceChange |-> 0,
             lastHit |-> FALSE ]

L1Idle ==
    l1 = [ cache |-> NewLRU(1, 0), cacheFusionVersion |-> 0, store |-> 0,
           metadata |-> 0, clock |-> 0, queries |-> 0, changed |-> FALSE,
           before |-> {}, sinceChange |-> 0, lastHit |-> FALSE ]

\* One query of runEnhancedPipeline, from the cache probe to the publish:
\* a hit returns at once; a miss retrieves, compares the recorded weights
\* version with the one the client saw last, and publishes non-empty
\* results under the key built before the retrieval.
L1Query ==
    /\ l1.queries < MaxL1Queries
    /\ \E query \in L1Queries, ran \in BOOLEAN, empty \in BOOLEAN :
         LET cacheKey == buildCacheKey(query, l1.cacheFusionVersion)
             probe    == Get(l1.cache, cacheKey, l1.clock)
             version  == RecordedVersion(ran, l1.store, l1.metadata)
             sees     == SeesNewVersion(l1.cacheFusionVersion, version)
             purged   == IF sees /\ PurgesOnNewVersion(l1.cacheFusionVersion)
                         THEN Purge(probe.cache) ELSE probe.cache
             done     == [l1 EXCEPT !.queries = @ + 1,
                                    !.sinceChange = IF l1.changed THEN Min(@ + 1, 2)
                                                    ELSE @]
         IN  IF probe.ok
             THEN /\ ran /\ ~empty
                  /\ l1' = [done EXCEPT !.cache = probe.cache, !.lastHit = TRUE]
             ELSE l1' = [done EXCEPT
                           !.metadata = version,
                           !.cacheFusionVersion = IF sees THEN version ELSE @,
                           !.cache = IF empty THEN purged
                                     ELSE Set(purged, cacheKey, version, 0,
                                              l1.clock),
                           !.lastHit = FALSE]
    /\ UNCHANGED l1Rest

\* The weights store starts to serve a snapshot with a new version.
WeightsChange ==
    /\ l1.store < MaxVersion
    /\ l1' = [l1 EXCEPT !.store = @ + 1, !.changed = TRUE, !.sinceChange = 0,
                        !.before = DOMAIN l1.cache.items]
    /\ UNCHANGED l1Rest

L1Tick ==
    /\ l1.clock < MaxClock
    /\ l1' = [l1 EXCEPT !.clock = @ + 1]
    /\ UNCHANGED l1Rest

L1Next == L1Query \/ WeightsChange \/ L1Tick

-----------------------------------------------------------------------------
(***************************************************************************)
(* An LRU cache under Get, Set and Purge: cache/lru.go                     *)
(*                                                                         *)
(* lru.cache is the cache, lru.clock the time.  lru.hist keeps for every   *)
(* entry of the cache the number of the operation that used it last (its   *)
(* last Get hit or Set), the time of its last Set and the TTL that Set     *)
(* asked for; lru.last describes the last operation.                       *)
(***************************************************************************)

\* The number of Get, Set and Purge calls of a behaviour.
MaxOps == 4

LRUKeys == {"k1", "k2", "k3"}

LRUValues == {"x", "y"}

\* The capacity and default TTL handed to NewLRU, and the TTLs handed to Set.
LRUConfigs == [capacity : {1, 2}, ttl : {0, 2}]

SetTTLs == {0, 1}

NoOp ==
    [ op |-> "none", key |-> "", ok |-> FALSE, value |-> "nil", at |-> 0,
      held |-> 0, isNew |-> FALSE, evicted |-> {}, lruKey |-> "",
      present |-> FALSE, elapsed |-> FALSE ]

\* The TTL an entry lives with: the one given to Set, or the cache default.
EffectiveTTL(c, ttl) == IF ttl > 0 THEN ttl ELSE c.ttl

\* The history of the entries that are still in the cache c
KeepHist(hist, c) == [k \in DOMAIN c.items |-> hist[k]]

\* The entry of the cache whose last use is the oldest
LeastRecentlyUsed(hist) ==
    IF DOMAIN hist = {} THEN ""
    ELSE CHOOSE k \in DOMAIN hist : \A j \in DOMAIN hist : hist[k].used <= hist[j].used

\* The TTL of the entry under key has elapsed at the time t
Elapsed(hist, key, t) ==
    /\ key \in DOMAIN hist
    /\ t - hist[key].setAt >= hist[key].ttl

LRUInit ==
    \E cfg \in LRUConfigs :
      lru = [ cache |-> NewLRU(cfg.capacity, cfg.ttl), clock |-> 0, ops |-> 0,
              hist |-> NoItems, last |-> NoOp ]

LRUIdle ==
    lru = [ cache |-> NewLRU(1, 0), clock |-> 0, ops |-> 0, hist |-> NoItems,
            last |-> NoOp ]

\* c.Get(key)
LRUGet ==
    /\ lru.ops < MaxOps
    /\ \E key \in LRUKeys :
         LET r == Get(lru.cache, key, lru.clock)
             h == IF r.ok
                  THEN [lru.hist EXCEPT ![key].used = lru.ops + 1]
                  ELSE lru.hist
         IN  lru' = [lru EXCEPT
                       !.cache = r.cache,
                       !.ops = @ + 1,
                       !.hist = KeepHist(h, r.cache),
                       !.last = [NoOp EXCEPT
                                   !.op = "Get", !.key = key, !.ok = r.ok,
                                   !.value = r.value, !.at = lru.clock,
                                   !.held = Cardinality(DOMAIN lru.cache.items),
                                   !.present = key \in DOMAIN lru.cache.items,
                                   !.elapsed = Elapsed(lru.hist, key, lru.clock),
                                   !.evicted = DOMAIN lru.cache.items
                                                 \ DOMAIN r.cache.items]]
    /\ UNCHANGED lruRest

\* c.Set(key, value, ttl)
LRUSet ==
    /\ lru.ops < MaxOps
    /\ \E key \in LRUKeys, value \in LRUValues, ttl \in SetTTLs :
         LET c == Set(lru.cache, key, value, ttl, lru.clock)
             h == [k \in DOMAIN c.items |->
                     IF k = key
                     THEN [ used |-> lru.ops + 1, setAt |-> lru.clock,
                            ttl |-> EffectiveTTL(lru.cache, ttl) ]
                     ELSE lru.hist[k]]
         IN  lru' = [lru EXCEPT
                       !.cache = c,
                       !.ops = @ + 1,
                       !.hist = h,
                       !.last = [NoOp EXCEPT
                                   !.op = "Set", !.key = key, !.value = value,
                                   !.at = lru.clock,
                                   !.held = Cardinality(DOMAIN lru.cache.items),
                                   !.isNew = key \notin DOMAIN lru.cache.items,
                                   !.present = key \in DOMAIN lru.cache.items,
                                   !.lruKey = LeastRecentlyUsed(lru.hist),
                                   !.evicted = DOMAIN lru.cache.items
                                                 \ DOMAIN c.items]]
    /\ UNCHANGED lruRest

\* c.Purge()
LRUPurge ==
    /\ lru.ops < MaxOps
    /\ lru' = [lru EXCEPT
                 !.cache = Purge(@),
                 !.ops = @ + 1,
                 !.hist = NoItems,
                 !.last = [NoOp EXCEPT
                             !.op = "Purge", !.at = lru.clock,
                             !.held = Cardinality(DOMAIN lru.cache.items),
                             !.evicted = DOMAIN lru.cache.items]]
    /\ UNCHANGED lruRest

\* A second passes.
LRUTick ==
    /\ lru.clock < MaxClock
    /\ lru' = [lru EXCEPT !.clock = @ + 1]
    /\ UNCHANGED lruRest

LRUNext == LRUGet \/ LRUSet \/ LRUPurge \/ LRUTick

-----------------------------------------------------------------------------
(***************************************************************************)
(* Concurrent Do calls on one client: common/httpx/httpx.go                *)
(*                                                                         *)
(* Every goroutine runs Do; a step of the model is one atomic operation    *)
(* on c.fail or c.openUntil, one reading of the clock, or the retry loop   *)
(* (which touches no shared state).  conc.procs[p] is the goroutine p: its *)
(* position pc in Do, the time now it read at the start, the deadline it   *)
(* computed, and the calls it has made.  The hosts are allowed.            *)
(***************************************************************************)

\* The calls each goroutine makes, and the length of a behaviour in seconds.
MaxCalls == 2

MaxConcTime == 2

\* The goroutines.
Procs == {1, 2}

\* The options of the client: max_consecutive_failures and
\* circuit_open_seconds.
ConcOptions == [MaxConsecutiveFail : {1, 2}, CircuitOpen : {1}]

ProcInit == [pc |-> "idle", now |-> 0, deadline |-> 0, calls |-> 0]

ConcInit ==
    \E opt \in ConcOptions :
      conc = [ opt |-> opt, fail |-> 0, openUntil |-> 0, clock |-> 0,
               procs |-> [p \in Procs |-> ProcInit], stored |-> <<>> ]

ConcIdle ==
    conc = [ opt |-> [MaxConsecutiveFail |-> 1, CircuitOpen |-> 1], fail |-> 0,
             openUntil |-> 0, clock |-> 0, procs |-> <<>>, stored |-> <<>> ]

\* `now := time.Now().UnixNano()` of a new call
DoStart(p) ==
    /\ conc.procs[p].pc = "idle"
    /\ conc.procs[p].calls < MaxCalls
    /\ conc' = [conc EXCEPT !.procs[p].pc = "load",
                            !.procs[p].now = conc.clock,
                            !.procs[p].calls = @ + 1]

\* `if atomic.LoadInt64(&c.openUntil) > now { return nil, ErrCircuitOpen }`
DoLoad(p) ==
    /\ conc.procs[p].pc = "load"
    /\ conc' = [conc EXCEPT !.procs[p].pc =
                   IF conc.openUntil > conc.procs[p].now THEN "idle"
                   ELSE "attempts"]

\* The retry loop: some attempt succeeds, or all of them fail.
DoAttempts(p) ==
    /\ conc.procs[p].pc = "attempts"
    /\ \E ok \in BOOLEAN :
         conc' = [conc EXCEPT !.procs[p].pc = IF ok THEN "reset" ELSE "add"]

\* `atomic.StoreInt32(&c.fail, 0); return resp, nil`
DoReset(p) ==
    /\ conc.procs[p].pc = "reset"
    /\ conc' = [conc EXCEPT !.fail = 0, !.procs[p].pc = "idle"]

\* `if atomic.AddInt32(&c.fail, 1) >= int32(c.opt.MaxConsecutiveFail)`
DoAdd(p) ==
    /\ conc.procs[p].pc = "add"
    /\ conc' = [conc EXCEPT
                  !.fail = @ + 1,
                  !.procs[p].pc =
                      IF conc.fail + 1 >= conc.opt.MaxConsecutiveFail
                      THEN "deadline" ELSE "idle"]

\* `time.Now().Add(c.opt.CircuitOpen).UnixNano()`, the argument of the store
DoDeadline(p) ==
    /\ conc.procs[p].pc = "deadline"
    /\ conc' = [conc EXCEPT
                  !.procs[p].deadline = conc.clock + conc.opt.CircuitOpen,
                  !.procs[p].pc = "open"]

\* `atomic.StoreInt64(&c.openUntil, ...)`
DoStoreOpenUntil(p) ==
    /\ conc.procs[p].pc = "open"
    /\ conc' = [conc EXCEPT
                  !.openUntil = conc.procs[p].deadline,
                  !.stored = Append(@, conc.procs[p].deadline),
                  !.procs[p].pc = "zero"]

\* `atomic.StoreInt32(&c.fail, 0)` after the circuit was opened, and the
\* return
DoStoreZero(p) ==
    /\ conc.procs[p].pc = "zero"
    /\ conc' = [conc EXCEPT !.fail = 0, !.procs[p].pc = "idle"]

\* A second passes.
ConcTick ==
    /\ conc.clock < MaxConcTime
    /\ conc' = [conc EXCEPT !.clock = @ + 1]

ConcStart == (\E p \in Procs : DoStart(p)) /\ UNCHANGED concRest

ConcLoad == (\E p \in Procs : DoLoad(p)) /\ UNCHANGED concRest

ConcAttempts == (\E p \in Procs : DoAttempts(p)) /\ UNCHANGED concRest

ConcReset == (\E p \in Procs : DoReset(p)) /\ UNCHANGED concRest

ConcAdd == (\E p \in Procs : DoAdd(p)) /\ UNCHANGED concRest

ConcDeadline == (\E p \in Procs : DoDeadline(p)) /\ UNCHANGED concRest

ConcStoreOpenUntil == (\E p \in Procs : DoStoreOpenUntil(p)) /\ UNCHANGED concRest

ConcStoreZero == (\E p \in Procs : DoStoreZero(p)) /\ UNCHANGED concRest

ConcTime == ConcTick /\ UNCHANGED concRest

ConcNext ==
    \/ ConcStart
    \/ ConcLoad
    \/ ConcAttempts
    \/ ConcReset
    \/ ConcAdd
    \/ ConcDeadline
    \/ ConcStoreOpenUntil
    \/ ConcStoreZero
    \/ ConcTime

-----------------------------------------------------------------------------
(***************************************************************************)
(* A feedback manager under Record and GetTrend: feedback/manager.go       *)
(*                                                                         *)
(* fb.mgr is the manager and fb.records the number of Record calls made;   *)
(* the calls of a behaviour are made within one second, the second 0.      *)
(* fb.last describes the last call: for Record the key and the history of  *)
(* the key before the call, for GetTrend the key, the window asked for and *)
(* the trend returned.                                                     *)
(***************************************************************************)

\* The number of Record calls of a behaviour.
MaxRecords == 6

\* The keys the pipeline records under: a profile name, or none.
FbKeys == {"p1", ""}

\* feedback.window as configured, and the window handed to GetTrend.
FbConfigWindows == {0, 1}

FbWindows == {0, 2}

NoCall ==
    [ op |-> "none", key |-> "", window |-> 0, before |-> <<>>,
      trend |-> NoTrend ]

FbInit ==
    \E w \in FbConfigWindows :
      fb = [ mgr |-> NewManager([ZeroFeedbackConfig EXCEPT !.Window = w]),
             records |-> 0, last |-> NoCall ]

FbIdle ==
    fb = [ mgr |-> NewManager(ZeroFeedbackConfig), records |-> 0,
           last |-> NoCall ]

\* Manager.Record, as the CRAG stage calls it: confidence 0
FbRecord ==
    /\ fb.records < MaxRecords
    /\ \E key \in FbKeys, verdict \in Verdicts :
         fb' = [fb EXCEPT
                  !.mgr = Record(@, key, verdict, 0, 0),
                  !.records = @ + 1,
                  !.last = [NoCall EXCEPT
                              !.op = "record", !.key = key,
                              !.before = HistoryOf(fb.mgr, ManagerKey(key))]]
    /\ UNCHANGED fbRest

\* Manager.GetTrend
FbGetTrend ==
    /\ \E key \in FbKeys, window \in FbWindows :
         fb' = [fb EXCEPT
                  !.last = [NoCall EXCEPT
                              !.op = "trend", !.key = key, !.window = window,
                              !.trend = GetTrend(fb.mgr, key, window)]]
    /\ UNCHANGED fbRest

FbNext ==
    \/ FbRecord
    \/ FbGetTrend

-----------------------------------------------------------------------------
(***************************************************************************)
(* The gating stage of runEnhancedPipeline over a sequence of queries:     *)
(* gating Evaluate and ApplyDecision with the feedback manager wired in    *)
(* by WithFeedback, and the verdicts the CRAG stage records.               *)
(*                                                                         *)
(* gating.p is the gating provider (its feedbackMgr is the manager of the  *)
(* client), gating.profile the configured profile the queries select,      *)
(* gating.clock the time, gating.records the number of verdicts recorded.  *)
(* gating.last describes the last query that went through the gating      *)
(* stage: the outcome of the preflight, the decision, the profile used     *)
(* for retrieval afterwards, whether the feedback adjustment changed it,   *)
(* the consecutive counts of the trend it looked at and whether the key    *)
(* was cooling down when the stage began.                                  *)
(***************************************************************************)

\* The number of verdicts recorded in a behaviour and the last clock value.
MaxVerdicts == 2

MaxGateClock == 1

\* The configured profile: the profile of scenario S1 and variants of it,
\* all named "p1" and all with a gate.
GateProfiles ==
    { [ Name |-> "p1", Retrievers |-> rs.r, TopK |-> k, Threshold |-> Rat(1, 2),
        UseWeb |-> rs.w, PerRetrieverTopK |-> 0,
        VectorGate |-> g.gate, VectorLowGate |-> g.low,
        ForceWebOnLow |-> g.force ] :
        rs \in { [r |-> <<"vector", "web">>, w |-> TRUE],
                 [r |-> <<"vector">>, w |-> FALSE] },
        k \in {2, 10},
        g \in { [gate |-> 85, low |-> 40, force |-> TRUE],
                [gate |-> 85, low |-> 0, force |-> FALSE],
                [gate |-> 0, low |-> 40, force |-> FALSE] } }

\* What the vector preflight returns: nothing, or a top-1 score.
Preflights == {PreflightFailed, 20, 85, 92}

\* The feedback configurations of the model, with a cooldown of one second
\* where there is one.
GateFeedbackConfigs ==
    { FeedbackConfig(0, 1, 1, 1, 0, 0, FALSE, 0),
      FeedbackConfig(0, 2, 2, 2, 1, 4, TRUE, 1),
      FeedbackConfig(0, 0, 0, 1, 1, 0, TRUE, 0) }

\* The gating providers NewRAGClient can build: with a feedback manager
\* when pipeline.feedback is configured, with a vector retriever or without.
GatingProviders ==
    { GatingProvider(TRUE, TRUE, cfg, NewManager(cfg)) : cfg \in GateFeedbackConfigs }
    \cup { GatingProvider(TRUE, FALSE, ZeroFeedbackConfig,
                          NewManager(ZeroFeedbackConfig)),
           GatingProvider(FALSE, FALSE, ZeroFeedbackConfig,
                          NewManager(ZeroFeedbackConfig)) }

NoGateQuery ==
    [ done |-> FALSE, preflight |-> PreflightFailed,
      decision |-> "none", applied |-> "none", adjusted |-> FALSE,
      incorrect |-> 0, ambiguous |-> 0, confident |-> 0, cooling |-> FALSE ]

GateInit ==
    \E p \in GatingProviders, prof \in GateProfiles :
      gating = [ p |-> p, profile |-> prof, clock |-> 0, records |-> 0,
                 last |-> NoGateQuery ]

GateIdle ==
    gating = [ p |-> GatingProvider(FALSE, FALSE, ZeroFeedbackConfig,
                                  NewManager(ZeroFeedbackConfig)),
             profile |-> "none", clock |-> 0, records |-> 0,
             last |-> NoGateQuery ]

\* The CRAG stage records the verdict of a query on the profile:
\* `r.feedbackManager.Record(prof.Name, verdict, 0)`
GateRecord ==
    /\ gating.p.hasFeedback
    /\ gating.records < MaxVerdicts
    /\ \E verdict \in Verdicts :
         gating' = [gating EXCEPT
                    !.p.feedbackMgr = Record(@, gating.profile.Name, verdict, 0,
                                             gating.clock),
                    !.records = @ + 1]
    /\ UNCHANGED gateRest

\* The gating stage of one query on the normalized profile: Evaluate,
\* ApplyDecision, Normalize.
GateQuery ==
    /\ \E preflight \in Preflights :
         /\ gating.profile.VectorGate > 0 \/ gating.profile.VectorLowGate > 0
         /\ LET prof     == Normalize(gating.profile)
                decision == Evaluate(gating.p, prof, preflight)
                res      == GatingApplyDecision(gating.p, decision, prof, gating.clock)
            IN  gating' = [gating EXCEPT
                   !.p.feedbackMgr = res.mgr,
                   !.last = [ done |-> TRUE,
                              preflight |-> preflight,
                              decision |-> decision,
                              applied |-> Normalize(res.profile),
                              adjusted |-> res.adjusted,
                              incorrect |-> res.trend.ConsecutiveIncorrect,
                              ambiguous |-> res.trend.ConsecutiveAmbiguous,
                              confident |-> res.trend.ConsecutiveConfident,
                              cooling |-> InCooldown(gating.p.feedbackMgr, prof.Name,
                                             gating.p.feedbackCfg.CooldownSec,
                                             gating.clock) ]]
    /\ UNCHANGED gateRest

GateTick ==
    /\ gating.clock < MaxGateClock
    /\ gating' = [gating EXCEPT !.clock = @ + 1]
    /\ UNCHANGED gateRest

GateNext ==
    \/ GateRecord
    \/ GateQuery
    \/ GateTick

-----------------------------------------------------------------------------
(***************************************************************************)
(* Queries of one profile that run applyFeedbackAdjustments at the same    *)
(* time, each on its own copy of the profile, against the one feedback     *)
(* manager of the client.  The manager's lock is held inside InCooldown,   *)
(* GetTrend and MarkAdjustment only, so each of the three is one step and  *)
(* the steps of different queries interleave.                              *)
(*                                                                         *)
(* throttle.p is the gating provider, throttle.clock the time and          *)
(* throttle.procs[i] the query i: where it is in the function, its         *)
(* profile, whether the profile was adjusted and whether the key was in    *)
(* its cooldown at the time the profile was adjusted.                      *)
(***************************************************************************)

\* The queries in flight and the last clock value.
MaxInFlight == 2

MaxThrClock == 2

\* The profile of the queries.
ThrProfile ==
    [ Name |-> "p1", Retrievers |-> <<"vector">>, TopK |-> 10,
      Threshold |-> Rat(1, 2), UseWeb |-> FALSE, PerRetrieverTopK |-> 10,
      VectorGate |-> 85, VectorLowGate |-> 40, ForceWebOnLow |-> TRUE ]

\* `key := profile.Name; if key == "" { key = "default" }`
ThrKey == IF ThrProfile.Name = "" THEN "default" ELSE ThrProfile.Name

\* Feedback configurations with thresholds of one verdict, without a
\* cooldown and with a cooldown of two seconds.
ThrConfigs ==
    { FeedbackConfig(0, 1, 1, 1, 1, 0, FALSE, cooldown) : cooldown \in {0, 2} }

\* The managers at the start: no verdict recorded yet, or one.
ThrManagers(cfg) ==
    {NewManager(cfg)}
    \cup { Record(NewManager(cfg), ThrProfile.Name, v, 0, 0) : v \in Verdicts }

ThrStart ==
    [pc |-> "check", prof |-> ThrProfile, adjusted |-> FALSE, late |-> FALSE]

ThrIdle ==
    throttle = [ p |-> GatingProvider(FALSE, FALSE, ZeroFeedbackConfig,
                                      NewManager(ZeroFeedbackConfig)),
                 clock |-> 0, procs |-> <<>> ]

ThrInit ==
    \E cfg \in ThrConfigs :
      \E mgr \in ThrManagers(cfg) :
        throttle = [ p |-> GatingProvider(TRUE, TRUE, cfg, mgr),
                     clock |-> 0,
                     procs |-> [i \in 1..MaxInFlight |-> ThrStart] ]

\* `if p.feedbackMgr.InCooldown(key, cooldown) { return profile }`
ThrCheck(i) ==
    /\ throttle.procs[i].pc = "check"
    /\ throttle' =
         [throttle EXCEPT !.procs[i].pc =
            IF InCooldown(throttle.p.feedbackMgr, ThrKey,
                          throttle.p.feedbackCfg.CooldownSec, throttle.clock)
            THEN "done" ELSE "trend"]
    /\ UNCHANGED thrRest

\* The provider after the cooldown check has let the query pass.
PastCooldown(p) == [p EXCEPT !.feedbackCfg.CooldownSec = 0]

\* GetTrend and the adjustment of the query's profile that follows it.
ThrAdjust(i) ==
    /\ throttle.procs[i].pc = "trend"
    /\ LET res == applyFeedbackAdjustments(PastCooldown(throttle.p),
                                           throttle.procs[i].prof,
                                           throttle.clock)
       IN  throttle' =
             [throttle EXCEPT
                !.procs[i] =
                  [ pc |-> IF res.adjusted THEN "mark" ELSE "done",
                    prof |-> res.profile,
                    adjusted |-> res.adjusted,
                    late |-> /\ res.adjusted
                             /\ InCooldown(throttle.p.feedbackMgr, ThrKey,
                                           throttle.p.feedbackCfg.CooldownSec,
                                           throttle.clock) ]]
    /\ UNCHANGED thrRest

\* `p.feedbackMgr.MarkAdjustment(key)`
ThrMark(i) ==
    /\ throttle.procs[i].pc = "mark"
    /\ throttle' =
         [throttle EXCEPT
            !.p.feedbackMgr = MarkAdjustment(@, ThrKey, throttle.clock),
            !.procs[i].pc = "done"]
    /\ UNCHANGED thrRest

ThrTick ==
    /\ throttle.clock < MaxThrClock
    /\ throttle' = [throttle EXCEPT !.clock = @ + 1]
    /\ UNCHANGED thrRest

ThrNext ==
    \/ \E i \in 1..MaxInFlight : ThrCheck(i)
    \/ \E i \in 1..MaxInFlight : ThrAdjust(i)
    \/ \E i \in 1..MaxInFlight : ThrMark(i)
    \/ ThrTick

-----------------------------------------------------------------------------
(***************************************************************************)
(* The canary rollout of the learned strategy: fusion/learned.go           *)
(* (LearnedStrategy.Fuse, shouldActivate) with the 32-bit FNV-1a hash of   *)
(* hash/fnv.  A string is the sequence of its bytes; a 32-bit word is the  *)
(* pair of its 16-bit halves <<high, low>>.                                *)
(*                                                                         *)
(* canary.params are the params of the call (an absent key is the empty    *)
(* string or 0), canary.inputs the inputs and canary.inputQuery the Query  *)
(* of the first of them, canary.loader what the weights loader's Get       *)
(* returns, canary.out the result of Fuse and canary.metadata what         *)
(* storeMetadata has stored.                                               *)
(***************************************************************************)

\* The FNV-1a offset basis 2166136261 = 0x811C9DC5 in halves, and the prime
\* 16777619 = 2^24 + 403.
FnvOffsetHi == 33052

FnvOffsetLo == 40389

FnvPrimeLow == 403

HalfWord == 65536

\* The number of traffic buckets: `h.Sum32() % 100`
TrafficBuckets == 100

\* a XOR b on n bits
RECURSIVE XorBits(_, _, _)
XorBits(a, b, n) ==
    IF n = 0 THEN 0
    ELSE (((a % 2) + (b % 2)) % 2) + 2 * XorBits(a \div 2, b \div 2, n - 1)

\* One byte of FNV-1a: `hash ^= byte; hash *= prime`, modulo 2^32.
FnvStep(h, byte) ==
    LET lo   == (h[2] \div 256) * 256 + XorBits(h[2] % 256, byte, 8)
        prod == lo * FnvPrimeLow
    IN  << (h[1] * FnvPrimeLow + (prod \div HalfWord) + (lo % 256) * 256) % HalfWord,
           prod % HalfWord >>

RECURSIVE fnv32a(_, _, _)
fnv32a(bytes, i, h) ==
    IF i > Len(bytes) THEN h ELSE fnv32a(bytes, i + 1, FnvStep(h, bytes[i]))

\* `h.Sum32() % 100` of the string
Sum32Mod100(bytes) ==
    LET h == fnv32a(bytes, 1, <<FnvOffsetHi, FnvOffsetLo>>)
    IN  ((h[1] % TrafficBuckets) * (HalfWord % TrafficBuckets) + h[2]) % TrafficBuckets

\* The hash seed: params["query_id"], else params["query"], else the query
\* of the first input.
HashSeed(callParams, inputs, inputQuery) ==
    IF callParams.query_id # <<>> THEN callParams.query_id
    ELSE IF callParams.query # <<>> THEN callParams.query
    ELSE IF Len(inputs) > 0 THEN inputQuery
    ELSE <<>>

\* Variant of InBucket that lets the bucket equal to the percentage in.
UpToBucket(value, percent) == value <= percent

\* `return int(value) < percent`
InBucket(value, percent) == value < percent

shouldActivate(callParams, inputs, inputQuery) ==
    LET percent  == callParams.traffic_percent
        hashSeed == HashSeed(callParams, inputs, inputQuery)
    IN  IF percent <= 0 \/ percent >= 100 THEN TRUE
        ELSE IF hashSeed = <<>> THEN TRUE
        ELSE InBucket(Sum32Mod100(hashSeed), percent)

\* The learned strategy of the model with its fallback RRF: the snapshot
\* applied, or the fallback.
LearnedConfig(active) ==
    FusionConfig("learned", 0, VectorTwice, <<>>, "rrf", 0, active, 1)

\* LearnedStrategy.Fuse: the result lists it can return and whether it
\* stores the snapshot's metadata.
LearnedFuse(callParams, inputs, inputQuery, loader) ==
    IF ~shouldActivate(callParams, inputs, inputQuery)
    THEN [outs |-> Fuse(LearnedConfig(FALSE), inputs), stored |-> FALSE]
    ELSE IF loader = "err"
    THEN [outs |-> Fuse(LearnedConfig(FALSE), inputs), stored |-> FALSE]
    ELSE [outs |-> Fuse(LearnedConfig(TRUE), inputs), stored |-> TRUE]

\* The strings "", "a", "b" and "q1"
Seeds == {<<>>, <<97>>, <<98>>, <<113, 49>>}

TrafficPercents == {0, 20, 21, 50, 100}

\* No inputs, or the vector list [a: 1, b: 2] and an empty bm25 list.
CanaryInputs ==
    { <<>>,
      << RetrieverResultOf(1, <<[id |-> "a", score |-> 1], [id |-> "b", score |-> 2]>>),
         RetrieverResultOf(2, <<>>) >> }

CanaryIdle ==
    canary = [ params |-> "none", inputs |-> <<>>, inputQuery |-> <<>>,
               loader |-> "ok", done |-> FALSE, out |-> <<>>,
               metadata |-> "none" ]

CanaryInit ==
    \E id \in Seeds, query \in Seeds, inputQuery \in Seeds,
       percent \in TrafficPercents, inputs \in CanaryInputs,
       loader \in {"ok", "err"} :
        canary = [ params |-> [query_id |-> id, query |-> query,
                               traffic_percent |-> percent],
                   inputs |-> inputs, inputQuery |-> inputQuery,
                   loader |-> loader, done |-> FALSE, out |-> <<>>,
                   metadata |-> "none" ]

CanaryFuse ==
    /\ ~canary.done
    /\ LET res == LearnedFuse(canary.params, canary.inputs, canary.inputQuery,
                              canary.loader)
       IN  \E out \in res.outs :
             canary' = [canary EXCEPT
                          !.done = TRUE, !.out = out,
                          !.metadata = IF res.stored THEN "learned" ELSE @]
    /\ UNCHANGED canaryRest

CanaryNext == CanaryFuse

-----------------------------------------------------------------------------
(***************************************************************************)
(* The weights loader under concurrent callers: fusion/weights_loader.go   *)
(* (NewWeightsLoader, Get, reload, loadOnce).  Get reads the cached        *)
(* snapshot under the read lock; reload takes the write lock, checks the   *)
(* snapshot again and reads the source while it holds the lock.  A step    *)
(* is what a caller does under one acquisition of the lock; the read of    *)
(* the source is a step of its own, during which time passes and the       *)
(* other callers wait.                                                     *)
(*                                                                         *)
(* wloader.ttl is the loader's ttl in seconds, wloader.cached the cached   *)
(* snapshot (its version and fetch time, version 0: nil), wloader.writer   *)
(* the caller that holds the write lock (0: nobody), wloader.procs[i] the  *)
(* caller i: where it is, when it checked the snapshot, what its last Get  *)
(* returned and how.  wloader.loads lists the reads of the source: when    *)
(* the reader had checked the snapshot, when the read ended and whether    *)
(* it succeeded.                                                           *)
(***************************************************************************)

\* The calls of Get in a behaviour and the last clock value.
MaxGets == 3

MaxLoaderClock == 2

Callers == {1, 2}

\* `if ttl <= 0 { ttl = time.Minute }`
DefaultLoaderTTL == 60

\* The nil *WeightSnapshot
NilSnapshot == [Version |-> 0, Fetched |-> 0]

NewWeightsLoader(ttl) ==
    [ ttl |-> IF ttl <= 0 THEN DefaultLoaderTTL ELSE ttl,
      cached |-> NilSnapshot, lastError |-> "nil" ]

\* `cached != nil && time.Since(cached.Fetched) < l.ttl`
SnapshotFresh(cached, ttl, t) ==
    cached # NilSnapshot /\ t - cached.Fetched < ttl

\* Variant of the check under the write lock that never finds the snapshot
\* fresh: reload without the second check.
NeverFresh(cached, ttl, t) == FALSE

\* The check of reload under the write lock.
FreshUnderLock(cached, ttl, t) == SnapshotFresh(cached, ttl, t)

WlCaller ==
    [pc |-> "idle", checkedAt |-> 0, result |-> NilSnapshot, how |-> "none"]

WlIdle ==
    wloader = [ ttl |-> DefaultLoaderTTL, cached |-> NilSnapshot,
                lastError |-> "nil",
                writer |-> 0, clock |-> 0, gets |-> 0, procs |-> <<>>,
                loads |-> <<>> ]

WlInit ==
    \E ttl \in {0, 1} :
        wloader = [ ttl |-> NewWeightsLoader(ttl).ttl,
                    cached |-> NewWeightsLoader(ttl).cached,
                    lastError |-> NewWeightsLoader(ttl).lastError,
                    writer |-> 0, clock |-> 0, gets |-> 0,
                    procs |-> [i \in Callers |-> WlCaller],
                    loads |-> <<>> ]

\* Get: the check under the read lock.
WlGet(i) ==
    /\ wloader.procs[i].pc \in {"idle", "done"}
    /\ wloader.gets < MaxGets
    /\ wloader.writer = 0
    /\ wloader' =
         [wloader EXCEPT
            !.gets = @ + 1,
            !.procs[i] =
              IF SnapshotFresh(wloader.cached, wloader.ttl, wloader.clock)
              THEN [pc |-> "done", checkedAt |-> wloader.clock,
                    result |-> wloader.cached, how |-> "cached"]
              ELSE [pc |-> "reload", checkedAt |-> 0, result |-> NilSnapshot,
                    how |-> "none"]]
    /\ UNCHANGED wlRest

\* reload: the write lock is taken and the snapshot checked again.
WlReload(i) ==
    /\ wloader.procs[i].pc = "reload"
    /\ wloader.writer = 0
    /\ wloader' =
         IF FreshUnderLock(wloader.cached, wloader.ttl, wloader.clock)
         THEN [wloader EXCEPT
                 !.procs[i] = [pc |-> "done", checkedAt |-> wloader.clock,
                               result |-> wloader.cached, how |-> "rechecked"]]
         ELSE [wloader EXCEPT
                 !.writer = i,
                 !.procs[i].pc = "loading",
                 !.procs[i].checkedAt = wloader.clock]
    /\ UNCHANGED wlRest

\* loadOnce and the rest of reload: the source is read, the snapshot stamped
\* with the time the read ends and cached, or the error kept; the lock is
\* released.
WlLoadOnce(i) ==
    /\ wloader.procs[i].pc = "loading"
    /\ wloader.writer = i
    /\ \E ok \in BOOLEAN :
         LET snapshot == [Version |-> Len(wloader.loads) + 1,
                          Fetched |-> wloader.clock]
             load     == [start |-> wloader.procs[i].checkedAt,
                          fetched |-> wloader.clock, ok |-> ok]
         IN  wloader' =
               [wloader EXCEPT
                  !.cached = IF ok THEN snapshot ELSE @,
                  !.lastError = IF ok THEN "nil" ELSE "err",
                  !.writer = 0,
                  !.loads = Append(@, load),
                  !.procs[i].pc = "done",
                  !.procs[i].result = IF ok THEN snapshot ELSE NilSnapshot,
                  !.procs[i].how = IF ok THEN "loaded" ELSE "failed"]
    /\ UNCHANGED wlRest

WlTick ==
    /\ wloader.clock < MaxLoaderClock
    /\ wloader' = [wloader EXCEPT !.clock = @ + 1]
    /\ UNCHANGED wlRest

WlNext ==
    \/ \E i \in Callers : WlGet(i)
    \/ \E i \in Callers : WlReload(i)
    \/ \E i \in Callers : WlLoadOnce(i)
    \/ WlTick

-----------------------------------------------------------------------------
(***************************************************************************)
(* The routers: RuleBasedRouter.Route with applyRules, and                 *)
(* HTTPRouter.Route with its rule-based fallback.                          *)
(*                                                                         *)
(* A query is what the rule-based router looks at: which keyword lists it  *)
(* hits, whether it has at most 3, more than 15 or another number of       *)
(* words, and whether it holds a question mark.  A confidence is in        *)
(* hundredths.  route.rules are the router's rules and route.last the      *)
(* last call: the query, what happened to the remote call and what Route   *)
(* returned.                                                               *)
(***************************************************************************)

RouteQueries ==
    [ temporal : BOOLEAN, comparison : BOOLEAN, open : BOOLEAN,
      words : {"short", "some", "long"}, question : BOOLEAN ]

\* A RouterRule; the variant names are lower-case and trimmed already.
RouterRule(intent, name, enable, budgets) ==
    [Intent |-> intent, Profile |-> name, Enable |-> enable, Budgets |-> budgets]

RouterRuleSets ==
    { <<>>,
      << RouterRule("Temporal", "fresh", {"web", "sparse"},
                    [k \in {"web"} |-> 3]) >>,
      << RouterRule("comparison", "", {}, [k \in {} |-> 0]),
         RouterRule("", "wide", {}, [k \in {"dense"} |-> 4]) >> }

\* strings.EqualFold on the intents of the model
EqualFold(a, b) ==
    LET lower(x) == IF x = "Temporal" THEN "temporal" ELSE x
    IN  lower(a) = lower(b)

buildVariantBudgets(rule) ==
    [k \in DOMAIN rule.Budgets \cup rule.Enable |->
        VariantBudget(k \in rule.Enable \/ rule.Enable = {},
                      IF k \in DOMAIN rule.Budgets THEN rule.Budgets[k] ELSE 0)]

\* RuleBasedRouter.applyRules: the first rule whose intent is empty or is
\* the query type.
RECURSIVE applyRules(_, _, _)
applyRules(rules, decision, i) ==
    IF i > Len(rules) THEN decision
    ELSE IF rules[i].Intent # "" /\ ~EqualFold(rules[i].Intent, decision.QueryType)
    THEN applyRules(rules, decision, i + 1)
    ELSE
      LET budgets == buildVariantBudgets(rules[i])
          on(v)   == v \in DOMAIN budgets /\ budgets[v].Enable
          named   == [decision EXCEPT
                        !.ProfileName =
                            IF rules[i].Profile # "" THEN rules[i].Profile
                            ELSE IF rules[i].Intent # "" THEN rules[i].Intent
                            ELSE @]
      IN  IF DOMAIN budgets = {} THEN named
          ELSE [named EXCEPT
                  !.VariantBudgets = budgets,
                  !.NeedVector = @ \/ on("dense"),
                  !.NeedBM25 = @ \/ on("sparse"),
                  !.NeedWeb = @ \/ on("web")]

\* RuleBasedRouter.Route
RuleBasedRoute(rules, query) ==
    LET d0 == [ NeedWeb |-> FALSE, NeedVector |-> TRUE, NeedBM25 |-> FALSE,
                QueryType |-> "factoid", Confidence |-> 60, Reason |-> "",
                SuggestedTopK |-> 10, ProfileName |-> "",
                VariantBudgets |-> [k \in {} |-> VariantBudget(FALSE, 0)] ]
        d1 == IF query.temporal
              THEN [d0 EXCEPT !.NeedWeb = TRUE, !.QueryType = "temporal",
                              !.Reason = "temporal", !.SuggestedTopK = 15]
              ELSE d0
        d2 == IF query.comparison
              THEN [d1 EXCEPT !.NeedBM25 = TRUE, !.QueryType = "comparison",
                              !.Reason = "comparison", !.SuggestedTopK = 12]
              ELSE d1
        d3 == IF query.open
              THEN [d2 EXCEPT !.NeedBM25 = TRUE, !.QueryType = "open-ended",
                              !.Reason = "open-ended", !.SuggestedTopK = 15]
              ELSE d2
        d4 == IF query.words = "long"
              THEN [d3 EXCEPT !.NeedBM25 = TRUE, !.QueryType = "complex",
                              !.Reason = "long", !.SuggestedTopK = 20]
              ELSE d3
        d5 == IF query.words = "short" /\ d4.QueryType = "factoid"
              THEN [d4 EXCEPT !.Reason = "short", !.SuggestedTopK = 5]
              ELSE d4
        d6 == IF query.question /\ ~d5.NeedBM25
              THEN [d5 EXCEPT !.NeedBM25 = TRUE, !.SuggestedTopK = @ + 3]
              ELSE d5
    IN  applyRules(rules, d6, 1)

\* A decision the remote service answers with.
RemoteDecisions ==
    { [ NeedWeb |-> w, NeedVector |-> FALSE, NeedBM25 |-> TRUE,
        QueryType |-> "remote", Confidence |-> 90, Reason |-> "remote",
        SuggestedTopK |-> 7, ProfileName |-> "",
        VariantBudgets |-> [k \in {} |-> VariantBudget(FALSE, 0)] ] :
        w \in BOOLEAN }

\* What becomes of the remote call: the request cannot be created, Client.Do
\* returns an error, or it returns a response with a status and a body that
\* decodes to a decision or does not.
RemoteCalls ==
    [ kind : {"no request"}, err : {"nil"}, status : {0}, decodes : {FALSE},
      decision : RemoteDecisions ]
    \cup [ kind : {"error"},
           err : {"host not allowed", "circuit open", "transport"},
           status : {0}, decodes : {FALSE}, decision : RemoteDecisions ]
    \cup [ kind : {"response"}, err : {"nil"}, status : {200, 204, 404, 503},
           decodes : BOOLEAN, decision : RemoteDecisions ]

\* Variant of StatusOK that takes every status below 500.
StatusBelow500(status) == status < 500

\* `resp.StatusCode != http.StatusOK`
StatusOK(status) == status = 200

\* HTTPRouter.Route: the decision and the error it returns.
HTTPRoute(rules, query, call) ==
    LET fallbackRuleBased == [decision |-> RuleBasedRoute(rules, query),
                              err |-> "nil"]
    IN  IF call.kind = "no request" THEN fallbackRuleBased
        ELSE IF call.err # "nil" THEN fallbackRuleBased
        ELSE IF ~StatusOK(call.status) THEN fallbackRuleBased
        ELSE IF ~call.decodes THEN fallbackRuleBased
        ELSE [decision |-> call.decision, err |-> "nil"]

RouteIdle == route = [rules |-> <<>>, calls |-> 0, last |-> <<>>]

RouteInit ==
    \E rules \in RouterRuleSets :
        route = [rules |-> rules, calls |-> 0, last |-> <<>>]

RouteCall ==
    \E query \in RouteQueries, call \in RemoteCalls :
        /\ route.calls = 0
        /\ route' = [route EXCEPT
                       !.calls = 1,
                       !.last = << [query |-> query, call |-> call,
                                    returned |-> HTTPRoute(route.rules, query,
                                                           call)] >>]
        /\ UNCHANGED routeRest

RouteNext == RouteCall

-----------------------------------------------------------------------------
(***************************************************************************)
(* The HTTP reranker: post/rerank.go (HTTPReranker.Rerank).                *)
(*                                                                         *)
(* reranker.in are the candidates (id and score), reranker.call what       *)
(* becomes of the call of the service, reranker.ranking the ranking it     *)
(* answers, reranker.topN the top_n of the call and reranker.out the list  *)
(* Rerank returns.                                                         *)
(***************************************************************************)

\* The longest ranking the service answers.
MaxRanking == 3

RerankCandidates ==
    { <<[id |-> "a", score |-> 0], [id |-> "b", score |-> 0],
        [id |-> "c", score |-> 0]>>,
      <<[id |-> "a", score |-> 0], [id |-> "b", score |-> 0]>> }

Rankings ==
    UNION { [1..n -> [id : {"a", "b", "c", "x"}, score : {1, 2}]] :
              n \in 0..MaxRanking }

\* `if topN > 0 && len(..) > topN { .. [:topN] }`
TruncateTo(list, topN) ==
    IF topN > 0 /\ Len(list) > topN THEN SubSeq(list, 1, topN) ELSE list

\* sort.SliceStable by score, descending: the element list[i] goes behind
\* the elements of acc that are not smaller.
RECURSIVE StableSortDesc(_, _, _)
StableSortDesc(list, i, acc) ==
    IF i > Len(list) THEN acc
    ELSE LET ahead == Cardinality({j \in DOMAIN acc :
                                     acc[j].score >= list[i].score})
         IN  StableSortDesc(list, i + 1,
                 SubSeq(acc, 1, ahead) \o <<list[i]>>
                   \o SubSeq(acc, ahead + 1, Len(acc)))

\* `idx[c.Document.ID] = i`: the last candidate with the id.
IndexOfId(in, id) ==
    CHOOSE i \in DOMAIN in :
        in[i].id = id /\ \A j \in DOMAIN in : in[j].id = id => j <= i

\* The ranking joined back to the candidates by id, in the order of the
\* ranking, with the scores of the ranking.
JoinById(in, ranking) ==
    LET known == SelectSeq(ranking,
                           LAMBDA r : \E i \in DOMAIN in : in[i].id = r.id)
    IN  [n \in DOMAIN known |->
           [in[IndexOfId(in, known[n].id)] EXCEPT !.score = known[n].score]]

\* HTTPReranker.Rerank with an endpoint
Rerank(in, call, ranking, topN) ==
    IF call # "ok" \/ Len(ranking) = 0 THEN TruncateTo(in, topN)
    ELSE StableSortDesc(TruncateTo(JoinById(in, ranking), topN), 1, <<>>)

RerankIdle ==
    reranker = [ in |-> <<>>, call |-> "ok", ranking |-> <<>>, topN |-> 0,
                 done |-> FALSE, out |-> <<>> ]

RerankInit ==
    \E in \in RerankCandidates, ranking \in Rankings, topN \in {0, 1, 2},
       call \in {"ok", "error", "undecodable"} :
        /\ call # "ok" => ranking = <<>>
        /\ reranker = [ in |-> in, call |-> call, ranking |-> ranking,
                        topN |-> topN, done |-> FALSE, out |-> <<>> ]

RerankCall ==
    /\ ~reranker.done
    /\ reranker' = [reranker EXCEPT
                      !.done = TRUE,
                      !.out = Rerank(reranker.in, reranker.call,
                                     reranker.ranking, reranker.topN)]
    /\ UNCHANGED rerankRest

RerankNext == RerankCall

-----------------------------------------------------------------------------
(***************************************************************************)
(* Validation of the pipeline configuration: Config.validatePipeline, and  *)
(* the selection of a profile by name from the validated configuration.    *)
(*                                                                         *)
(* validation.cfg is the pipeline section (rrf_k and the retrieval         *)
(* profiles; the post and CRAG sections are absent and no retriever is     *)
(* configured), validation.errs the fields validatePipeline reports and    *)
(* validation.selected the index of the profile a SelectByName returned.   *)
(***************************************************************************)

\* The most profiles in a configuration.
MaxProfiles == 2

ValidatedNames == {"", "fast", "deep"}

ValidatedProfiles ==
    { [EmptyProfile EXCEPT !.Name = name, !.TopK = topK,
                           !.Threshold = threshold, !.VectorGate = gate]
        @@ [VectorLowGate |-> low] :
      name \in ValidatedNames, topK \in {-1, 5},
      threshold \in {Rat(1, 2), Rat(3, 2)},
      gate \in {RatZero, Rat(1, 2)}, low \in {RatZero, Rat(1, 2)} }

ValidatedConfigs ==
    [ RRFK : {-1, 60},
      RetrievalProfiles :
          UNION {[1..n -> ValidatedProfiles] : n \in 1..MaxProfiles} ]

OutsideUnit(x) == RatLess(x, RatZero) \/ RatGreater(x, Rat(1, 1))

\* The errors of the i-th profile, in the order of the checks.
ProfileErrors(prof) ==
    (IF prof.Name = "" THEN <<"name">> ELSE <<>>)
    \o (IF prof.TopK < 0 THEN <<"top_k">> ELSE <<>>)
    \o (IF OutsideUnit(prof.Threshold) THEN <<"threshold">> ELSE <<>>)
    \o (IF OutsideUnit(prof.VectorGate) THEN <<"vector_gate">> ELSE <<>>)
    \o (IF OutsideUnit(prof.VectorLowGate)
        THEN <<"vector_low_gate">> ELSE <<>>)
    \o (IF /\ RatGreater(prof.VectorGate, RatZero)
           /\ RatGreater(prof.VectorLowGate, RatZero)
           /\ ~RatLess(prof.VectorLowGate, prof.VectorGate)
        THEN <<"gates">> ELSE <<>>)

RECURSIVE AllProfileErrors(_, _)
AllProfileErrors(profiles, i) ==
    IF i > Len(profiles) THEN <<>>
    ELSE ProfileErrors(profiles[i]) \o AllProfileErrors(profiles, i + 1)

\* Config.validatePipeline without post and CRAG sections and retrievers
validatePipeline(cfg) ==
    (IF cfg.RRFK < 0 THEN <<"rrf_k">> ELSE <<>>)
    \o AllProfileErrors(cfg.RetrievalProfiles, 1)

ValidateIdle ==
    validation = [ cfg |-> [RRFK |-> 0, RetrievalProfiles |-> <<>>],
                   validated |-> FALSE, errs |-> <<>>, selected |-> 0 ]

ValidateInit ==
    \E cfg \in ValidatedConfigs :
        validation = [ cfg |-> cfg, validated |-> FALSE, errs |-> <<>>,
                       selected |-> 0 ]

\* Config.Validate, pipeline part
Validate ==
    /\ ~validation.validated
    /\ validation' = [validation EXCEPT
                        !.validated = TRUE,
                        !.errs = validatePipeline(validation.cfg)]
    /\ UNCHANGED validateRest

\* A query selects a profile of the accepted configuration by name.
ValidatedSelect ==
    /\ validation.validated
    /\ validation.errs = <<>>
    /\ validation.selected = 0
    /\ \E name \in ValidatedNames \ {""} :
         validation' =
           [validation EXCEPT
              !.selected =
                  SelectByName(validation.cfg.RetrievalProfiles, name).Index]
    /\ UNCHANGED validateRest

ValidateNext ==
    \/ Validate
    \/ ValidatedSelect

-----------------------------------------------------------------------------
(***************************************************************************)
(* The retrieval provider: retrieval/provider.go (Retrieve,                *)
(* selectRetrievers, parallelRetrieve, fuse), without cascade.             *)
(*                                                                         *)
(* The provider has a vector and a bm25 retriever.  retrieval.responses    *)
(* is what Search answers for every (query, retriever) task: an error      *)
(* (possibly with the documents found so far) or a list.  One goroutine    *)
(* per task runs after the launch; a task that is done has left            *)
(* retrieval.pending.  retrieval.grouped is the map of the bundles by      *)
(* retriever type and retrieval.allDocs the raw list; both are written     *)
(* under the mutex, so a completion is one step.                           *)
(***************************************************************************)

RegisteredRetrievers == <<"vector", "bm25">>

RetrieveQueries == {<<"q1">>, <<"q1", "q2">>}

\* What Search returns for a task of the query: the first query finds the
\* documents a and b, its rewrite finds c.
SearchResponses(query) ==
    IF query = "q1"
    THEN { [err |-> FALSE, docs |-> <<>>],
           [err |-> FALSE, docs |-> <<[id |-> "a", score |-> Rat(2, 1)]>>],
           [err |-> FALSE, docs |-> <<[id |-> "b", score |-> Rat(2, 1)],
                                      [id |-> "a", score |-> Rat(1, 1)]>>],
           [err |-> TRUE, docs |-> <<>>],
           [err |-> TRUE, docs |-> <<[id |-> "a", score |-> Rat(2, 1)]>>] }
    ELSE { [err |-> FALSE, docs |-> <<>>],
           [err |-> FALSE, docs |-> <<[id |-> "c", score |-> Rat(2, 1)]>>],
           [err |-> TRUE, docs |-> <<>>] }

\* The profiles of a call, normalized: retrievers, threshold, top_k and
\* max_fanout.
RetrieveProfiles ==
    [ Retrievers : {<<"vector">>, <<"vector", "bm25">>, <<"web">>},
      Threshold  : {DefaultThreshold},
      TopK       : {DefaultTopK},
      MaxFanout  : {0, 1, 3} ]

\* The strategies of the provider: the default RRF and a linear combination.
RetrieveStrategies ==
    { FusionConfig("rrf", DefaultRRFK, NoWeights, <<>>, "", 0, FALSE, 0),
      FusionConfig("linear", 0, NoWeights, <<1, 2>>, "", 0, FALSE, 0) }

\* selectRetrievers: the registered retrievers the profile names.
selectRetrievers(prof) ==
    IF Len(prof.Retrievers) = 0 THEN RegisteredRetrievers
    ELSE SelectSeq(prof.Retrievers,
                   LAMBDA key : key \in Range(RegisteredRetrievers))

\* The queries left by the fan-out control of parallelRetrieve.
LimitQueries(queries, retrievers, prof) ==
    IF prof.MaxFanout > 0 /\ Len(queries) * Len(retrievers) > prof.MaxFanout
    THEN LET q          == prof.MaxFanout \div Len(retrievers)
             maxQueries == IF q < 1 THEN 1 ELSE q
         IN  IF Len(queries) > maxQueries
             THEN SubSeq(queries, 1, maxQueries) ELSE queries
    ELSE queries

\* The tasks of `for _, q := range queries { for _, ret := range retrievers`
\* in the order of their launch.
RECURSIVE LaunchedTasks(_, _, _)
LaunchedTasks(queries, retrievers, i) ==
    IF i > Len(queries) THEN <<>>
    ELSE [j \in DOMAIN retrievers |-> <<queries[i], retrievers[j]>>]
         \o LaunchedTasks(queries, retrievers, i + 1)

\* A goroutine that adds what Search returned whether it failed or not.
ContributesAlways(resp) == TRUE

\* Whether the goroutine of a task gets to the bundles: `if err != nil {
\* return }`.
Contributes(resp) == ~resp.err

NoBundles == [r \in {} |-> <<>>]

\* The end of the goroutine of task t with the answer resp: allDocs and
\* grouped[r.Type()] get the documents.
TaskDone(acc, t, resp) ==
    IF ~Contributes(resp) THEN acc
    ELSE LET key   == t[2]
             entry == IF key \in DOMAIN acc.grouped THEN acc.grouped[key]
                      ELSE [Retriever |-> key, Provider |-> "", Query |-> t[1],
                            Results |-> <<>>]
             added == [entry EXCEPT !.Results = @ \o resp.docs]
         IN  [ allDocs |-> acc.allDocs \o resp.docs,
               grouped |-> [k \in DOMAIN acc.grouped \cup {key} |->
                              IF k = key THEN added ELSE acc.grouped[k]] ]

Orderings(S) ==
    {s \in [1..Cardinality(S) -> S] : \A i, j \in DOMAIN s : s[i] = s[j] => i = j}

\* `for _, item := range grouped { inputs = append(inputs, item) }`: the
\* bundles in the order of one iteration of the map.
InputsOf(grouped) ==
    {[i \in DOMAIN order |-> grouped[order[i]]] :
        order \in Orderings(DOMAIN grouped)}

\* The threshold and top_k steps of fuse.
KeepAbove(fused, threshold) ==
    IF RatGreater(threshold, RatZero)
    THEN SelectSeq(fused, LAMBDA doc : ~RatLess(doc.score, threshold))
    ELSE fused

CutTo(fused, topK) ==
    IF Len(fused) > topK THEN SubSeq(fused, 1, topK) ELSE fused

\* defaultProvider.fuse: the lists it can return.
fuse(cfg, prof, inputs, raw) ==
    IF Len(raw) = 0 THEN {<<>>}
    ELSE { CutTo(KeepAbove(fused, prof.Threshold), prof.TopK) :
             fused \in Fuse(cfg, inputs) }

RetrieveIdle ==
    retrieval = [ cfg |-> FusionConfig("rrf", 0, NoWeights, <<>>, "", 0, FALSE, 0),
                  prof |-> [Retrievers |-> <<>>, Threshold |-> RatZero,
                            TopK |-> 0, MaxFanout |-> 0],
                  queries |-> <<>>, responses |-> <<>>, stage |-> "idle",
                  tasks |-> <<>>, pending |-> {}, allDocs |-> <<>>,
                  grouped |-> NoBundles, out |-> <<>> ]

RetrieveInit ==
    \E cfg \in RetrieveStrategies, prof \in RetrieveProfiles,
       queries \in RetrieveQueries :
      \E responses \in
           [Range(LaunchedTasks(queries, selectRetrievers(prof), 1))
              -> UNION {SearchResponses(q) : q \in Range(queries)}] :
        /\ \A t \in DOMAIN responses : responses[t] \in SearchResponses(t[1])
        /\ retrieval = [ cfg |-> cfg, prof |-> prof, queries |-> queries,
                        responses |-> responses, stage |-> "idle",
                        tasks |-> <<>>, pending |-> {}, allDocs |-> <<>>,
                        grouped |-> NoBundles, out |-> <<>> ]

\* Retrieve up to the launch of the goroutines of parallelRetrieve; with no
\* active retriever it returns an empty list.
RetrieveStart ==
    /\ retrieval.stage = "idle"
    /\ LET active == selectRetrievers(retrieval.prof)
           tasks  == LaunchedTasks(
                         LimitQueries(retrieval.queries, active, retrieval.prof),
                         active, 1)
       IN  retrieval' =
             IF Len(active) = 0
             THEN [retrieval EXCEPT !.stage = "done"]
             ELSE [retrieval EXCEPT !.stage = "fanout", !.tasks = tasks,
                                    !.pending = Range(tasks)]
    /\ UNCHANGED retrieveRest

\* The goroutine of a task ends.
TaskComplete ==
    /\ retrieval.stage = "fanout"
    /\ \E t \in retrieval.pending :
         LET acc == TaskDone([allDocs |-> retrieval.allDocs,
                              grouped |-> retrieval.grouped],
                             t, retrieval.responses[t])
         IN  retrieval' = [retrieval EXCEPT !.pending = @ \ {t},
                                            !.allDocs = acc.allDocs,
                                            !.grouped = acc.grouped]
    /\ UNCHANGED retrieveRest

\* After wg.Wait: the inputs are collected from the map and fused.
RetrieveFuse ==
    /\ retrieval.stage = "fanout"
    /\ retrieval.pending = {}
    /\ \E inputs \in InputsOf(retrieval.grouped) :
         \E out \in fuse(retrieval.cfg, retrieval.prof, inputs,
                         retrieval.allDocs) :
           retrieval' = [retrieval EXCEPT !.stage = "done", !.out = out]
    /\ UNCHANGED retrieveRest

RetrieveNext ==
    \/ RetrieveStart
    \/ TaskComplete
    \/ RetrieveFuse

\* The bundles and the raw list after the tasks ended in the given order.
RECURSIVE RunTasks(_, _, _, _)
RunTasks(order, responses, i, acc) ==
    IF i > Len(order) THEN acc
    ELSE RunTasks(order, responses, i + 1,
                  TaskDone(acc, order[i], responses[order[i]]))

NoneDone == [allDocs |-> <<>>, grouped |-> NoBundles]

\* Every list Retrieve can return for the tasks with the responses.
Outcomes(cfg, prof, tasks, responses) ==
    UNION { UNION { fuse(cfg, prof, inputs, acc.allDocs) :
                      inputs \in InputsOf(acc.grouped) } :
              acc \in { RunTasks(order, responses, 1, NoneDone) :
                          order \in Orderings(Range(tasks)) } }

\* The responses with every failure replaced by an empty list.
FailedAsEmpty(responses) ==
    [t \in DOMAIN responses |->
       IF responses[t].err THEN [err |-> FALSE, docs |-> <<>>]
       ELSE responses[t]]

\* The lists Retrieve returns when the tasks end in the order of their
\* launch and the bundles are handed over in the order of the retrievers.
InOrderOutcomes(cfg, prof, tasks, responses) ==
    LET acc    == RunTasks(tasks, responses, 1, NoneDone)
        active == SelectSeq(selectRetrievers(prof),
                            LAMBDA r : r \in DOMAIN acc.grouped)
    IN  fuse(cfg, prof, [i \in DOMAIN active |-> acc.grouped[active[i]]],
             acc.allDocs)

-----------------------------------------------------------------------------
(***************************************************************************)
(* Replacing the fusion strategy while retrievals run:                     *)
(* retrieval/provider.go (SetFusionStrategy, and the reads of fuse).       *)
(*                                                                         *)
(* swap.strategy and swap.params are the fields p.fusionStrategy and       *)
(* p.fusionParams ("old" after construction, "new" once the call has       *)
(* written them), swap.arg the arguments of the call ("nil" or "new"),     *)
(* swap.setPc the position of the call and swap.fuse, for every goroutine  *)
(* that runs Retrieve, its position in fuse and what it has read.  No      *)
(* lock or atomic guards the fields, so every access is a step of its own  *)
(* and a read that overlaps the call races with its write.                 *)
(***************************************************************************)

Retrievals == {"g1", "g2"}

FuseStart == [pc |-> "idle", params |-> "none", strategy |-> "none"]

\* What a read of a field can return: the field, or, in a race with the
\* write of the running call, the value before or after the write.
RacyRead(current, argument) ==
    IF swap.setPc \in {"strategy", "params"} /\ argument # "nil"
    THEN {"old", "new"} ELSE {current}

SwapIdle ==
    swap = [ strategy |-> "old", params |-> "old",
             arg |-> [strategy |-> "nil", params |-> "nil"],
             setPc |-> "done", fuse |-> [g \in Retrievals |-> FuseStart] ]

SwapInit ==
    \E arg \in [strategy : {"nil", "new"}, params : {"nil", "new"}] :
        swap = [ strategy |-> "old", params |-> "old", arg |-> arg,
                 setPc |-> "idle", fuse |-> [g \in Retrievals |-> FuseStart] ]

\* SetFusionStrategy is called.
SetFusionStrategy ==
    /\ swap.setPc = "idle"
    /\ swap' = [swap EXCEPT !.setPc = "strategy"]
    /\ UNCHANGED swapRest

\* `if strategy != nil { p.fusionStrategy = strategy }`
SetStrategy ==
    /\ swap.setPc = "strategy"
    /\ swap' = [swap EXCEPT
                  !.setPc = "params",
                  !.strategy = IF swap.arg.strategy # "nil"
                               THEN swap.arg.strategy ELSE @]
    /\ UNCHANGED swapRest

\* `if params != nil { p.fusionParams = params }`, and the return
SetParams ==
    /\ swap.setPc = "params"
    /\ swap' = [swap EXCEPT
                  !.setPc = "done",
                  !.params = IF swap.arg.params # "nil"
                             THEN swap.arg.params ELSE @]
    /\ UNCHANGED swapRest

\* A Retrieve call gets to fuse with results to fuse.
FuseEnter(g) ==
    /\ swap.fuse[g].pc = "idle"
    /\ swap' = [swap EXCEPT !.fuse[g].pc = "params"]
    /\ UNCHANGED swapRest

\* `for k, v := range p.fusionParams { params[k] = v }`
FuseReadParams(g) ==
    /\ swap.fuse[g].pc = "params"
    /\ \E v \in RacyRead(swap.params, swap.arg.params) :
         swap' = [swap EXCEPT !.fuse[g].pc = "strategy",
                              !.fuse[g].params = v]
    /\ UNCHANGED swapRest

\* `strategy := p.fusionStrategy`, and the call of strategy.Fuse
FuseReadStrategy(g) ==
    /\ swap.fuse[g].pc = "strategy"
    /\ \E v \in RacyRead(swap.strategy, swap.arg.strategy) :
         swap' = [swap EXCEPT !.fuse[g].pc = "fused",
                              !.fuse[g].strategy = v]
    /\ UNCHANGED swapRest

SwapNext ==
    \/ SetFusionStrategy
    \/ SetStrategy
    \/ SetParams
    \/ \E g \in Retrievals : FuseEnter(g)
    \/ \E g \in Retrievals : FuseReadParams(g)
    \/ \E g \in Retrievals : FuseReadStrategy(g)

\* The strategy and the params of the provider before and after the call.
BeforeSwap == [strategy |-> "old", params |-> "old"]

AfterSwap ==
    [ strategy |-> IF swap.arg.strategy # "nil" THEN "new" ELSE "old",
      params   |-> IF swap.arg.params # "nil" THEN "new" ELSE "old" ]

-----------------------------------------------------------------------------
(***************************************************************************)
(* Specifications                                                          *)
(***************************************************************************)

HttpIdle ==
    /\ now = 0
    /\ http = [opt |-> NewFromConfig([Retry |-> 0, MaxConsecutiveFailures |-> 0,
                                      CircuitOpenSeconds |-> 0,
                                      HostAllowlist |-> <<>>]),
               fail |-> 0, openUntil |-> 0]
    /\ httpObs = HttpObsInit

InitHttp ==
    /\ HttpInit
    /\ FusionIdle
    /\ CloneInit
    /\ ProfileIdle
    /\ SearchInit
    /\ PipeIdle
    /\ ProviderIdle
    /\ L1Idle
    /\ LRUIdle
    /\ ConcIdle
    /\ FbIdle
    /\ GateIdle
    /\ ThrIdle
    /\ CanaryIdle
    /\ WlIdle
    /\ RouteIdle
    /\ RerankIdle
    /\ ValidateIdle
    /\ RetrieveIdle
    /\ SwapIdle

SpecHttp == InitHttp /\ [][HttpNext]_vars

InitFusion ==
    /\ FusionInit
    /\ HttpIdle
    /\ CloneInit
    /\ ProfileIdle
    /\ SearchInit
    /\ PipeIdle
    /\ ProviderIdle
    /\ L1Idle
    /\ LRUIdle
    /\ ConcIdle
    /\ FbIdle
    /\ GateIdle
    /\ ThrIdle
    /\ CanaryIdle
    /\ WlIdle
    /\ RouteIdle
    /\ RerankIdle
    /\ ValidateIdle
    /\ RetrieveIdle
    /\ SwapIdle

SpecFusion == InitFusion /\ [][FusionNext]_vars

InitClone ==
    /\ CloneInit
    /\ HttpIdle
    /\ FusionIdle
    /\ ProfileIdle
    /\ SearchInit
    /\ PipeIdle
    /\ ProviderIdle
    /\ L1Idle
    /\ LRUIdle
    /\ ConcIdle
    /\ FbIdle
    /\ GateIdle
    /\ ThrIdle
    /\ CanaryIdle
    /\ WlIdle
    /\ RouteIdle
    /\ RerankIdle
    /\ ValidateIdle
    /\ RetrieveIdle
    /\ SwapIdle

SpecClone == InitClone /\ [][CloneNext]_vars

InitProfile ==
    /\ ProfileInit
    /\ HttpIdle
    /\ FusionIdle
    /\ CloneInit
    /\ SearchInit
    /\ PipeIdle
    /\ ProviderIdle
    /\ L1Idle
    /\ LRUIdle
    /\ ConcIdle
    /\ FbIdle
    /\ GateIdle
    /\ ThrIdle
    /\ CanaryIdle
    /\ WlIdle
    /\ RouteIdle
    /\ RerankIdle
    /\ ValidateIdle
    /\ RetrieveIdle
    /\ SwapIdle

SpecProfile == InitProfile /\ [][ProfileNext]_vars

InitSearch ==
    /\ SearchInit
    /\ HttpIdle
    /\ FusionIdle
    /\ CloneInit
    /\ ProfileIdle
    /\ PipeIdle
    /\ ProviderIdle
    /\ L1Idle
    /\ LRUIdle
    /\ ConcIdle
    /\ FbIdle
    /\ GateIdle
    /\ ThrIdle
    /\ CanaryIdle
    /\ WlIdle
    /\ RouteIdle
    /\ RerankIdle
    /\ ValidateIdle
    /\ RetrieveIdle
    /\ SwapIdle

SpecSearch == InitSearch /\ [][SearchNext]_vars

InitPipe ==
    /\ PipeInit
    /\ HttpIdle
    /\ FusionIdle
    /\ CloneInit
    /\ ProfileIdle
    /\ SearchInit
    /\ ProviderIdle
    /\ L1Idle
    /\ LRUIdle
    /\ ConcIdle
    /\ FbIdle
    /\ GateIdle
    /\ ThrIdle
    /\ CanaryIdle
    /\ WlIdle
    /\ RouteIdle
    /\ RerankIdle
    /\ ValidateIdle
    /\ RetrieveIdle
    /\ SwapIdle

SpecPipe == InitPipe /\ [][PipeNext]_vars

InitProvider ==
    /\ ProviderInit
    /\ HttpIdle
    /\ FusionIdle
    /\ CloneInit
    /\ ProfileIdle
    /\ SearchInit
    /\ PipeIdle
    /\ L1Idle
    /\ LRUIdle
    /\ ConcIdle
    /\ FbIdle
    /\ GateIdle
    /\ ThrIdle
    /\ CanaryIdle
    /\ WlIdle
    /\ RouteIdle
    /\ RerankIdle
    /\ ValidateIdle
    /\ RetrieveIdle
    /\ SwapIdle

SpecProvider == InitProvider /\ [][ProviderNext]_vars

InitL1 ==
    /\ L1Init
    /\ HttpIdle
    /\ FusionIdle
    /\ CloneInit
    /\ ProfileIdle
    /\ SearchInit
    /\ PipeIdle
    /\ ProviderIdle
    /\ LRUIdle
    /\ ConcIdle
    /\ FbIdle
    /\ GateIdle
    /\ ThrIdle
    /\ CanaryIdle
    /\ WlIdle
    /\ RouteIdle
    /\ RerankIdle
    /\ ValidateIdle
    /\ RetrieveIdle
    /\ SwapIdle

SpecL1 == InitL1 /\ [][L1Next]_vars

InitLRU ==
    /\ LRUInit
    /\ HttpIdle
    /\ FusionIdle
    /\ CloneInit
    /\ ProfileIdle
    /\ SearchInit
    /\ PipeIdle
    /\ ProviderIdle
    /\ L1Idle
    /\ ConcIdle
    /\ FbIdle
    /\ GateIdle
    /\ ThrIdle
    /\ CanaryIdle
    /\ WlIdle
    /\ RouteIdle
    /\ RerankIdle
    /\ ValidateIdle
    /\ RetrieveIdle
    /\ SwapIdle

SpecLRU == InitLRU /\ [][LRUNext]_vars

InitConc ==
    /\ ConcInit
    /\ HttpIdle
    /\ FusionIdle
    /\ CloneInit
    /\ ProfileIdle
    /\ SearchInit
    /\ PipeIdle
    /\ ProviderIdle
    /\ L1Idle
    /\ LRUIdle
    /\ FbIdle
    /\ GateIdle
    /\ ThrIdle
    /\ CanaryIdle
    /\ WlIdle
    /\ RouteIdle
    /\ RerankIdle
    /\ ValidateIdle
    /\ RetrieveIdle
    /\ SwapIdle

SpecConc == InitConc /\ [][ConcNext]_vars

InitFeedback ==
    /\ FbInit
    /\ HttpIdle
    /\ FusionIdle
    /\ CloneInit
    /\ ProfileIdle
    /\ SearchInit
    /\ PipeIdle
    /\ ProviderIdle
    /\ L1Idle
    /\ LRUIdle
    /\ ConcIdle
    /\ GateIdle
    /\ ThrIdle
    /\ CanaryIdle
    /\ WlIdle
    /\ RouteIdle
    /\ RerankIdle
    /\ ValidateIdle
    /\ RetrieveIdle
    /\ SwapIdle

SpecFeedback == InitFeedback /\ [][FbNext]_vars

InitGate ==
    /\ GateInit
    /\ HttpIdle
    /\ FusionIdle
    /\ CloneInit
    /\ ProfileIdle
    /\ SearchInit
    /\ PipeIdle
    /\ ProviderIdle
    /\ L1Idle
    /\ LRUIdle
    /\ ConcIdle
    /\ FbIdle
    /\ ThrIdle
    /\ CanaryIdle
    /\ WlIdle
    /\ RouteIdle
    /\ RerankIdle
    /\ ValidateIdle
    /\ RetrieveIdle
    /\ SwapIdle

SpecGate == InitGate /\ [][GateNext]_vars

InitThrottle ==
    /\ ThrInit
    /\ HttpIdle
    /\ FusionIdle
    /\ CloneInit
    /\ ProfileIdle
    /\ SearchInit
    /\ PipeIdle
    /\ ProviderIdle
    /\ L1Idle
    /\ LRUIdle
    /\ ConcIdle
    /\ FbIdle
    /\ GateIdle
    /\ CanaryIdle
    /\ WlIdle
    /\ RouteIdle
    /\ RerankIdle
    /\ ValidateIdle
    /\ RetrieveIdle
    /\ SwapIdle

SpecThrottle == InitThrottle /\ [][ThrNext]_vars

InitCanary ==
    /\ CanaryInit
    /\ HttpIdle
    /\ FusionIdle
    /\ CloneInit
    /\ ProfileIdle
    /\ SearchInit
    /\ PipeIdle
    /\ ProviderIdle
    /\ L1Idle
    /\ LRUIdle
    /\ ConcIdle
    /\ FbIdle
    /\ GateIdle
    /\ ThrIdle
    /\ WlIdle
    /\ RouteIdle
    /\ RerankIdle
    /\ ValidateIdle
    /\ RetrieveIdle
    /\ SwapIdle

SpecCanary == InitCanary /\ [][CanaryNext]_vars

InitLoader ==
    /\ WlInit
    /\ HttpIdle
    /\ FusionIdle
    /\ CloneInit
    /\ ProfileIdle
    /\ SearchInit
    /\ PipeIdle
    /\ ProviderIdle
    /\ L1Idle
    /\ LRUIdle
    /\ ConcIdle
    /\ FbIdle
    /\ GateIdle
    /\ ThrIdle
    /\ CanaryIdle
    /\ RouteIdle
    /\ RerankIdle
    /\ ValidateIdle
    /\ RetrieveIdle
    /\ SwapIdle

SpecLoader == InitLoader /\ [][WlNext]_vars

InitRoute ==
    /\ RouteInit
    /\ HttpIdle
    /\ FusionIdle
    /\ CloneInit
    /\ ProfileIdle
    /\ SearchInit
    /\ PipeIdle
    /\ ProviderIdle
    /\ L1Idle
    /\ LRUIdle
    /\ ConcIdle
    /\ FbIdle
    /\ GateIdle
    /\ ThrIdle
    /\ CanaryIdle
    /\ WlIdle
    /\ RerankIdle
    /\ ValidateIdle
    /\ RetrieveIdle
    /\ SwapIdle

SpecRoute == InitRoute /\ [][RouteNext]_vars

InitRerank ==
    /\ RerankInit
    /\ HttpIdle
    /\ FusionIdle
    /\ CloneInit
    /\ ProfileIdle
    /\ SearchInit
    /\ PipeIdle
    /\ ProviderIdle
    /\ L1Idle
    /\ LRUIdle
    /\ ConcIdle
    /\ FbIdle
    /\ GateIdle
    /\ ThrIdle
    /\ CanaryIdle
    /\ WlIdle
    /\ RouteIdle
    /\ ValidateIdle
    /\ RetrieveIdle
    /\ SwapIdle

SpecRerank == InitRerank /\ [][RerankNext]_vars

InitValidate ==
    /\ ValidateInit
    /\ HttpIdle
    /\ FusionIdle
    /\ CloneInit
    /\ ProfileIdle
    /\ SearchInit
    /\ PipeIdle
    /\ ProviderIdle
    /\ L1Idle
    /\ LRUIdle
    /\ ConcIdle
    /\ FbIdle
    /\ GateIdle
    /\ ThrIdle
    /\ CanaryIdle
    /\ WlIdle
    /\ RouteIdle
    /\ RerankIdle
    /\ RetrieveIdle
    /\ SwapIdle

SpecValidate == InitValidate /\ [][ValidateNext]_vars

InitRetrieve ==
    /\ RetrieveInit
    /\ HttpIdle
    /\ FusionIdle
    /\ CloneInit
    /\ ProfileIdle
    /\ SearchInit
    /\ PipeIdle
    /\ ProviderIdle
    /\ L1Idle
    /\ LRUIdle
    /\ ConcIdle
    /\ FbIdle
    /\ GateIdle
    /\ ThrIdle
    /\ CanaryIdle
    /\ WlIdle
    /\ RouteIdle
    /\ RerankIdle
    /\ ValidateIdle
    /\ SwapIdle

SpecRetrieve == InitRetrieve /\ [][RetrieveNext]_vars

InitSwap ==
    /\ SwapInit
    /\ HttpIdle
    /\ FusionIdle
    /\ CloneInit
    /\ ProfileIdle
    /\ SearchInit
    /\ PipeIdle
    /\ ProviderIdle
    /\ L1Idle
    /\ LRUIdle
    /\ ConcIdle
    /\ FbIdle
    /\ GateIdle
    /\ ThrIdle
    /\ CanaryIdle
    /\ WlIdle
    /\ RouteIdle
    /\ RerankIdle
    /\ ValidateIdle
    /\ RetrieveIdle

SpecSwap == InitSwap /\ [][SwapNext]_vars

-----------------------------------------------------------------------------
(***************************************************************************)
(* Claims about the HTTP client                                            *)
(***************************************************************************)

\* A Do call for a host the allow-list permits.
DoAllowed == \E host \in Hosts : allowed(http.opt, host) /\ Do(host)

\* The client has just had its MaxConsecutiveFail-th failing request in a
\* row (counted from its creation or its last successful request; the
\* count starts again each time the circuit opens) and less than
\* CircuitOpen seconds have passed since that request returned.
AfterThresholdFailures ==
    /\ httpObs.failing > 0
    /\ httpObs.failing % http.opt.MaxConsecutiveFail = 0
    /\ now < httpObs.lastFailAt + http.opt.CircuitOpen

\* C1 (as stated): after max_consecutive_failures consecutive failing
\* requests, the next Do call made before circuit_open_seconds has elapsed
\* returns the circuit-open error and performs no HTTP attempt.
C1_NextCallCircuitOpen ==
    [][ (AfterThresholdFailures /\ HttpDo)
          => (httpObs'.lastErr = "circuit open" /\ httpObs'.lastAttempts = 0) ]_vars

\* C1 (amended): after max_consecutive_failures consecutive failing
\* requests, the next Do call for a host the allow-list permits, made
\* before circuit_open_seconds has elapsed, returns the circuit-open error,
\* performs no HTTP attempt and leaves the client unchanged.
C1_NextAllowedCallCircuitOpen ==
    [][ (AfterThresholdFailures /\ DoAllowed)
          => /\ httpObs'.lastErr = "circuit open"
             /\ httpObs'.result = "circuit-open"
             /\ httpObs'.lastAttempts = 0
             /\ http' = http ]_vars

\* C1 witness: a call was refused with circuit-open right after the
\* threshold was reached.
C1_Witness ==
    /\ AfterThresholdFailures
    /\ httpObs.result = "circuit-open"
    /\ httpObs.lastAttempts = 0

\* The client of scenario S5 (retry=2, max_consecutive_failures=3,
\* circuit_open_seconds=1) whose upstream has answered 500 to every attempt.
S5Client ==
    /\ http.opt.Retry = 2
    /\ http.opt.MaxConsecutiveFail = 3
    /\ http.opt.CircuitOpen = 1
    /\ httpObs.only500

\* C2 (as stated): for the S5 client a single Do call (3 attempts) opens
\* the circuit: the next Do call within circuit_open_seconds returns
\* circuit-open.
C2_OneCallOpensCircuit ==
    [][ ( /\ S5Client
          /\ httpObs.failing = 1
          /\ httpObs.lastAttempts = 3
          /\ now < httpObs.lastFailAt + http.opt.CircuitOpen
          /\ DoAllowed )
          => httpObs'.lastErr = "circuit open" ]_vars

\* C2 (amended): for the S5 client the circuit opens after three failing
\* Do calls (3 attempts each), not after one: after the first and the second
\* call the next Do call for an allowed host attempts I/O again, after the
\* third the next one within circuit_open_seconds returns circuit-open.
C2_ThreeCallsOpenCircuit ==
    [][ (S5Client /\ DoAllowed)
          => /\ httpObs.failing \in {1, 2}
                  => (httpObs'.lastAttempts >= 1 /\ httpObs'.lastErr # "circuit open")
             /\ (httpObs.failing = 3
                 /\ now < httpObs.lastFailAt + http.opt.CircuitOpen)
                  => (httpObs'.lastErr = "circuit open" /\ httpObs'.lastAttempts = 0) ]_vars

\* C2 witness: the S5 client refused a call after three failing calls.
C2_Witness ==
    /\ S5Client
    /\ httpObs.failing = 3
    /\ httpObs.result = "circuit-open"

\* A Do call has returned in this step.
DoReturned == httpObs' # httpObs

\* The matching as the claim words it: "*" matches any host, "*.suffix" the
\* bare suffix and any host that ends in ".suffix", any other pattern only
\* the identical host.
MatchesIdentical(pattern, host) ==
    \/ pattern = <<"*">>
    \/ /\ Len(pattern) >= 2
       /\ pattern[1] = "*"
       /\ (host = Tail(pattern) \/ HasDotSuffix(host, Tail(pattern)))
    \/ pattern = host

\* The same, with a pattern that has no wildcard compared to the host
\* without regard to case.
MatchesFolded(pattern, host) ==
    \/ pattern = <<"*">>
    \/ /\ Len(pattern) >= 2
       /\ pattern[1] = "*"
       /\ (host = Tail(pattern) \/ HasDotSuffix(host, Tail(pattern)))
    \/ ToLowerHost(pattern) = ToLowerHost(host)

\* The call refused the host without an attempt and left the failure
\* counter and the open-until deadline as they were.
RefusedUntouched ==
    /\ httpObs'.lastAttempts = 0
    /\ http'.fail = http.fail
    /\ http'.openUntil = http.openUntil

\* C16: Do returns host-not-allowed, without an HTTP attempt and without
\* changing the failure counter or the open-until deadline, exactly when the
\* allow-list is not empty and the request host matches none of its
\* patterns, where a pattern that is neither "*" nor "*.suffix" matches only
\* the identical host.
C16_NotAllowedIffNoIdenticalMatch ==
    [][ DoReturned =>
          /\ (httpObs'.result = "host-not-allowed") <=>
                 /\ Len(http.opt.HostAllowlist) > 0
                 /\ \A i \in DOMAIN http.opt.HostAllowlist :
                      ~MatchesIdentical(http.opt.HostAllowlist[i],
                                        httpObs'.lastHost)
          /\ (httpObs'.result = "host-not-allowed") => RefusedUntouched ]_vars

\* C16, amended: the same with a pattern that has no wildcard matching the
\* host that is equal to it without regard to case; the suffix of a
\* "*.suffix" pattern is compared exactly.
C16_NotAllowedIffNoFoldedMatch ==
    [][ DoReturned =>
          /\ (httpObs'.result = "host-not-allowed") <=>
                 /\ Len(http.opt.HostAllowlist) > 0
                 /\ \A i \in DOMAIN http.opt.HostAllowlist :
                      ~MatchesFolded(http.opt.HostAllowlist[i],
                                     httpObs'.lastHost)
          /\ (httpObs'.result = "host-not-allowed") => RefusedUntouched ]_vars

\* After a failing call that was counted, a call for es.CORP was refused by
\* the allow-list ["*.corp"], and the counter still holds that failure.
C16_Witness ==
    /\ httpObs.result = "host-not-allowed"
    /\ httpObs.lastHost = <<"es", "CORP">>
    /\ http.opt.HostAllowlist = << <<"*", "corp">> >>
    /\ httpObs.lastAttempts = 0
    /\ http.fail = 1

\* The last call went past the allow-list and the circuit check.
Attempted == httpObs.result \in {"ok", "fail"}

\* C17: when the host is allowed and the circuit is closed, Do makes at
\* most retries+1 HTTP attempts, stops at the first attempt that returns
\* with a status in [200,500), and makes exactly retries+1 attempts when no
\* attempt succeeds.
C17_AttemptsUpToFirstSuccess ==
    Attempted =>
        /\ httpObs.lastAttempts \in 1..(http.opt.Retry + 1)
        /\ httpObs.firstOk > 0 =>
             /\ httpObs.lastAttempts = httpObs.firstOk
             /\ httpObs.result = "ok"
        /\ httpObs.firstOk = 0 =>
             /\ httpObs.lastAttempts = http.opt.Retry + 1
             /\ httpObs.result = "fail"

\* A call with two retries has stopped at its second attempt, the first
\* one that succeeded.
C17_Witness ==
    /\ httpObs.result = "ok"
    /\ http.opt.Retry = 2
    /\ httpObs.lastAttempts = 2
    /\ httpObs.firstOk = 2

\* The circuit opens in this step.
CircuitOpens == http'.openUntil # http.openUntil

\* C18: a Do call that succeeds resets the consecutive-failure counter to
\* zero, so the circuit opens only after max_consecutive_failures failing
\* Do calls with no successful Do call between them.
C18_SuccessResetsCounter ==
    [][ /\ (DoReturned /\ httpObs'.result = "ok") => http'.fail = 0
        /\ CircuitOpens =>
             /\ httpObs'.result = "fail"
             /\ httpObs'.failing >= http.opt.MaxConsecutiveFail
        /\ http'.fail <= httpObs'.failing ]_vars

\* A call has succeeded after a failing call, with the circuit never opened:
\* the counter is back at zero.
C18_Witness ==
    /\ httpObs.result = "ok"
    /\ httpObs.lastFailAt > 0
    /\ http.openUntil = 0
    /\ http.fail = 0
    /\ httpObs.failing = 0

\* C20: an open circuit closes by itself: once the open-until deadline has
\* passed, a Do call to an allowed host attempts I/O again instead of
\* returning circuit-open.
C20_CircuitClosesAfterDeadline ==
    [][ DoReturned =>
          /\ ( /\ httpObs'.result # "host-not-allowed"
               /\ http.openUntil <= now ) =>
                 /\ httpObs'.result \in {"ok", "fail"}
                 /\ httpObs'.lastAttempts >= 1
          /\ httpObs'.result = "circuit-open" => now < http.openUntil ]_vars

\* The circuit was opened, its deadline has passed, and the call made then
\* has attempted the request and succeeded.
C20_Witness ==
    /\ http.openUntil > 0
    /\ now >= http.openUntil
    /\ httpObs.result = "ok"
    /\ httpObs.lastAttempts >= 1

-----------------------------------------------------------------------------
(***************************************************************************)
(* Claims about the fusion strategies                                      *)
(***************************************************************************)

\* C3: for every fusion strategy and every input, the fused output contains
\* no document with an empty id, no two documents with the same id, and
\* scores that never increase from one position to the next.
C3_FusedOutputWellFormed ==
    \A r \in DOMAIN fusion.outs :
        LET out == fusion.outs[r]
        IN  /\ \A i \in DOMAIN out : out[i].id # ""
            /\ \A i, j \in DOMAIN out : out[i].id = out[j].id => i = j
            /\ \A i \in DOMAIN out :
                 i + 1 \in DOMAIN out =>
                    out[i].score.n * out[i + 1].score.d
                      >= out[i + 1].score.n * out[i].score.d

\* A run whose inputs hold an empty id and the same id twice, with two
\* documents in the output.
C3_Witness ==
    /\ Len(fusion.outs) > 0
    /\ Len(fusion.outs[1]) = 2
    /\ LET items == Items(fusion.inputs)
       IN  /\ \E i \in DOMAIN items : items[i].id = ""
           /\ \E i, j \in DOMAIN items : i # j /\ items[i].id = items[j].id
                                         /\ items[i].id # ""

PositionIn(seq, x) == CHOOSE i \in DOMAIN seq : seq[i] = x

\* C4: fusion is deterministic: two runs of a strategy on the same inputs
\* with the same parameters return the same documents in the same order, and
\* documents with equal fused score appear in the order in which they were
\* first encountered in the inputs.
C4_FusionDeterministic ==
    /\ Len(fusion.outs) = 2 => fusion.outs[1] = fusion.outs[2]
    /\ \A r \in DOMAIN fusion.outs :
         LET out  == fusion.outs[r]
             seen == FirstSeen(Items(fusion.inputs), 1, <<>>)
         IN  \A i, j \in DOMAIN out :
                (i < j /\ RatEq(out[i].score, out[j].score)) =>
                    PositionIn(seen, out[i].id) < PositionIn(seen, out[j].id)

-----------------------------------------------------------------------------
(***************************************************************************)
(* Claims about the L1 cache of the pipeline                               *)
(***************************************************************************)

\* C5: two L1 cache hits for the same key return equal result lists that
\* share no mutable state with each other or with the cached value: whatever
\* the callers change through the lists they hold (document fields, the
\* metadata map at any depth, the vector), the cached value, which is what
\* a later hit returns, stays what was published.
C5_CacheValuesAreDeepCopies ==
    l1Cache # 0 => DeepList(heap, l1Cache) = cloneObs.published

-----------------------------------------------------------------------------
(***************************************************************************)
(* Claims about profiles and the router decision                           *)
(***************************************************************************)

\* C6: for any profile (including one whose top_k is zero or negative and
\* whose retriever list is empty), the profile returned by normalization has
\* top_k >= 1 and a non-empty retrievers list.
C6_NormalizedProfileUsable ==
    profObs.stage = "normalized" =>
        /\ profile.TopK >= 1
        /\ Len(profile.Retrievers) > 0

\* C7: ApplyDecision is idempotent: applying a decision to the profile that
\* ApplyDecision returned for it gives that profile again, with the same
\* retrievers in the same order, the same use_web, top_k and
\* variant_budgets.
C7_ApplyDecisionIdempotent ==
    profObs.stage = "routed twice" =>
        LET first == profObs.once[1]
        IN  /\ profile.Retrievers = first.Retrievers
            /\ profile.UseWeb = first.UseWeb
            /\ profile.TopK = first.TopK
            /\ profile.VariantBudgets = first.VariantBudgets

-----------------------------------------------------------------------------
(***************************************************************************)
(* Claims about the retrievers                                             *)
(***************************************************************************)

\* C8: every document returned by any retriever's Search (vector, BM25,
\* path, web) has non-nil metadata whose retriever_type equals that
\* retriever's Type().
C8_SearchSetsRetrieverType ==
    (search.stage = "searched" /\ search.via = "Search") =>
        \A i \in DOMAIN search.docs :
            /\ ~search.docs[i].Metadata.isNil
            /\ "retriever_type" \in DOMAIN search.docs[i].Metadata.kv
            /\ search.docs[i].Metadata.kv["retriever_type"] = search.type

-----------------------------------------------------------------------------
(***************************************************************************)
(* Claims about the pipeline                                               *)
(***************************************************************************)

\* C9: when CRAG is enabled, the evaluator returns an error and
\* crag.fail_mode is "closed", the query fails with that error instead of
\* returning results.
C9_ClosedFailModePropagates ==
    ( /\ pipe.pc \in {"publish", "done"}
      /\ pipe.event = Event("crag", TRUE)
      /\ pipe.cfg.failMode = "closed" ) =>
        /\ pipe.err = "evaluator"
        /\ pipe.results = <<>>

ContainedStages == {"router", "gating", "rerank", "compress", "crag"}

NextStage(cfg, pc) ==
    CASE pc = "router"   -> "gating"
      [] pc = "gating"   -> "probe"
      [] pc = "rerank"   -> "compress"
      [] pc = "compress" -> "crag"
      [] pc = "crag"     -> IF cfg.impl = "orchestrator" THEN "done" ELSE "publish"
      [] OTHER           -> pc

StageOrder ==
    << "profile", "router", "gating", "probe", "retrieve", "rerank",
       "compress", "crag", "publish" >>

LaterStages == {"retrieve", "rerank", "compress", "crag", "publish"}

\* The probe found the results in the cache.
CacheHit == pipe.event = Event("probe", FALSE)

\* C13: within one query the stages run strictly in the order profile,
\* router, gating, cache probe, retrieve, rerank, compress, CRAG, cache
\* publish, each after the previous one has finished; on a cache hit the
\* query returns at once and none of retrieve, rerank, compress, CRAG and
\* cache publish runs.
C13_StagesInOrder ==
    /\ Len(pipe.trace) <= Len(StageOrder)
    /\ pipe.trace = SubSeq(StageOrder, 1, Len(pipe.trace))
    /\ pipe.pc \notin {"done", "idle"} =>
         pipe.pc = StageOrder[Len(pipe.trace) + 1]
    /\ CacheHit =>
         /\ pipe.pc = "done"
         /\ Range(pipe.trace) \cap LaterStages = {}
         /\ ~pipe.published

\* A query that hit the cache has returned after the probe.
C13_Witness ==
    /\ CacheHit
    /\ pipe.pc = "done"
    /\ pipe.trace = <<"profile", "router", "gating", "probe">>
    /\ Len(pipe.results) = 2

-----------------------------------------------------------------------------
(***************************************************************************)
(* Claims about the profile provider                                       *)
(***************************************************************************)

\* The fields of a profile the configuration sets.
Configured(p) ==
    [ Retrievers |-> p.Retrievers, TopK |-> p.TopK, UseWeb |-> p.UseWeb,
      VariantBudgets |-> p.VariantBudgets ]

\* C11: processing queries never changes the configured profiles: after
\* any sequence of queries every profile the provider holds still has the
\* retrievers, top_k, use_web and variant_budgets it was configured with.
C11_ConfiguredProfilesUnchanged ==
    \A i \in DOMAIN provider.profiles :
      Configured(provider.profiles[i]) = Configured(provider.configured[i])

-----------------------------------------------------------------------------
(***************************************************************************)
(* Claims about the L1 cache and the weights version                       *)
(***************************************************************************)

\* C12: after the fusion weights version has changed, once the next query
\* has completed no entry stored before the change is left in the L1 cache.
C12_NextQueryPurges ==
    (l1.changed /\ l1.sinceChange >= 1) =>
        DOMAIN l1.cache.items \cap l1.before = {}

-----------------------------------------------------------------------------
(***************************************************************************)
(* Claims about the LRU cache                                              *)
(***************************************************************************)

\* C14: a Set of a new key into a cache that holds `capacity` entries
\* evicts exactly one entry, the least recently used one, and after any
\* sequence of Get, Set and Purge the cache holds at most `capacity`
\* entries.
C14_SetEvictsLeastRecentlyUsed ==
    /\ Cardinality(DOMAIN lru.cache.items) <= lru.cache.capacity
    /\ ( /\ lru.last.op = "Set"
         /\ lru.last.isNew
         /\ lru.last.held = lru.cache.capacity ) =>
           /\ lru.last.evicted = {lru.last.lruKey}
           /\ lru.last.key \in DOMAIN lru.cache.items

\* A Set of a third key has evicted, from a full cache of two entries, the
\* entry that was set last but used least recently.
C14_Witness ==
    /\ lru.last.op = "Set"
    /\ lru.last.isNew
    /\ lru.cache.capacity = 2
    /\ lru.last.held = 2
    /\ lru.last.evicted = {"k2"}
    /\ lru.cache.order = <<"k3", "k1">>

\* C15: Get never returns a value whose TTL has elapsed: a Get for an entry
\* whose TTL has elapsed reports a miss and removes the entry.
C15_GetNeverReturnsExpired ==
    lru.last.op = "Get" =>
        /\ lru.last.ok => (lru.last.present /\ ~lru.last.elapsed)
        /\ (lru.last.present /\ lru.last.elapsed) =>
             /\ ~lru.last.ok
             /\ lru.last.value = "nil"
             /\ lru.last.key \notin DOMAIN lru.cache.items
             /\ lru.last.evicted = {lru.last.key}

\* A Get found an entry whose TTL had elapsed, reported a miss and removed
\* it, while another entry stayed in the cache.
C15_Witness ==
    /\ lru.last.op = "Get"
    /\ lru.last.present
    /\ lru.last.elapsed
    /\ ~lru.last.ok
    /\ lru.last.evicted = {lru.last.key}
    /\ Cardinality(DOMAIN lru.cache.items) = 1

-----------------------------------------------------------------------------
(***************************************************************************)
(* Claims about concurrent Do calls                                        *)
(***************************************************************************)

\* C19: the open-until deadline of a client never moves backwards: over any
\* interleaving of concurrent Do calls, each stored open-until value is
\* greater than or equal to the one stored before it.
C19_OpenUntilMonotonic ==
    \A i \in 1..(Len(conc.stored) - 1) : conc.stored[i] <= conc.stored[i + 1]

-----------------------------------------------------------------------------
(***************************************************************************)
(* Claims about the feedback manager                                       *)
(***************************************************************************)

\* The records GetTrend looks at: the last `window` records of the key,
\* with the window of the configuration or 5 when none is given.
WindowOf(m, key, window) ==
    LET all == HistoryOf(m, ManagerKey(key))
        w   == IF window > 0 THEN window
               ELSE IF m.cfg.Window > 0 THEN m.cfg.Window ELSE DefaultWindow
    IN  IF Len(all) > w THEN SubSeq(all, Len(all) - w + 1, Len(all)) ELSE all

\* The length of the unbroken run of the verdict v that ends at the last
\* record of the history.
RunAtEnd(history, v) ==
    IF \E i \in DOMAIN history : history[i].Verdict # v
    THEN Len(history) -
           (CHOOSE i \in DOMAIN history :
              /\ history[i].Verdict # v
              /\ \A j \in DOMAIN history : history[j].Verdict # v => j <= i)
    ELSE Len(history)

\* C26: the consecutive counts GetTrend returns are the lengths of the
\* unbroken runs of incorrect, ambiguous and confident verdicts that end at
\* the most recent record of the window; the count of a verdict is 0 when
\* the most recent verdict is another one.
C26_ConsecutiveRunsEndAtMostRecent ==
    fb.last.op = "trend" =>
      LET history == WindowOf(fb.mgr, fb.last.key, fb.last.window)
          trend   == fb.last.trend
      IN  /\ trend.ConsecutiveIncorrect = RunAtEnd(history, "incorrect")
          /\ trend.ConsecutiveAmbiguous = RunAtEnd(history, "ambiguous")
          /\ trend.ConsecutiveConfident = RunAtEnd(history, "correct")

\* The history of the key of the last Record call is the end of the history
\* before the call followed by the new record: records are dropped at the
\* old end only.
RecordKeepsNewest ==
    fb.last.op = "record" =>
      LET history == HistoryOf(fb.mgr, ManagerKey(fb.last.key))
          before  == fb.last.before
          kept    == Len(history) - 1
      IN  /\ Len(history) >= 1
          /\ history[Len(history)].Verdict \in Verdicts
          /\ kept <= Len(before)
          /\ \A i \in 1..kept :
               history[i] = before[Len(before) - kept + i]
          /\ kept < Len(before) => Len(history) = fb.mgr.maxPerKey

-----------------------------------------------------------------------------
(***************************************************************************)
(* Claims about the gating stage                                           *)
(***************************************************************************)

\* The profile the last query entered the gating stage with.
GatedProfile == Normalize(gating.profile)

\* Web is in the profile.
HasWeb(prof) == prof.UseWeb \/ containsRetriever(prof.Retrievers, "web")

\* The last query went through the gating stage with a preflight that
\* returned a top-1 score.
Gated ==
    /\ gating.last.done
    /\ gating.p.hasVector
    /\ gating.last.preflight # PreflightFailed

\* The preflight score of the last query reached the vector gate of a
\* profile that has web.
HighScoreWithWeb ==
    /\ Gated
    /\ GatedProfile.VectorGate > 0
    /\ gating.last.preflight >= GatedProfile.VectorGate
    /\ HasWeb(GatedProfile)

\* The reason of the last decision starts with the tag.
ReasonStartsWith(tag) == gating.last.decision.Reason[1] = tag

\* The profile used for the retrieval of the last query has no web.
WebAbsent ==
    /\ ~containsRetriever(gating.last.applied.Retrievers, "web")
    /\ ~gating.last.applied.UseWeb

LowScoreOnS1 ==
    /\ Gated
    /\ GatedProfile.Retrievers = <<"vector", "web">>
    /\ GatedProfile.UseWeb
    /\ GatedProfile.VectorGate = 85
    /\ GatedProfile.VectorLowGate = 40
    /\ GatedProfile.ForceWebOnLow
    /\ gating.last.preflight = 20

\* C22 as stated: for the S1 profile and a preflight score of 0.2 the
\* reason starts with "force_web" and web is in the retrievers after
\* ApplyDecision.
C22_LowScoreReasonForceWeb ==
    LowScoreOnS1 =>
      /\ ReasonStartsWith("force_web")
      /\ containsRetriever(gating.last.applied.Retrievers, "web")

\* C22, amended: for the S1 profile, which has web already, and a preflight
\* score of 0.2 the decision forces nothing and its reason starts with
\* "neutral"; web is in the retrievers after ApplyDecision and use_web is
\* still true.
C22_LowScoreReasonNeutral ==
    LowScoreOnS1 =>
      /\ ReasonStartsWith("neutral")
      /\ ~gating.last.decision.ShouldForceWeb
      /\ ~gating.last.decision.ShouldSuppressWeb
      /\ containsRetriever(gating.last.applied.Retrievers, "web")
      /\ gating.last.applied.UseWeb

C22_Witness == LowScoreOnS1 /\ GatedProfile.TopK = 10

\* The feedback adjustment of the last query ran outside the cooldown.
OutsideCooldown ==
    /\ gating.last.done
    /\ gating.p.hasFeedback
    /\ ~gating.last.cooling

\* The trend the last adjustment looked at: consecutive incorrect or
\* ambiguous verdicts have reached their configured threshold, or the
\* consecutive confident verdicts have.
LowQualityTrend ==
    LET th == gating.p.feedbackCfg.Thresholds
    IN  \/ th.Incorrect > 0 /\ gating.last.incorrect >= th.Incorrect
        \/ th.Ambiguous > 0 /\ gating.last.ambiguous >= th.Ambiguous

ConfidentTrend ==
    LET th == gating.p.feedbackCfg.Thresholds
    IN  th.Confident > 0 /\ gating.last.confident >= th.Confident

TopKStepOf(cfg) ==
    IF cfg.Adjustments.TopKStep <= 0 THEN DefaultTopKStep
    ELSE cfg.Adjustments.TopKStep

\* C23: outside the cooldown top_k changes in the direction of the trend
\* only: on a low-quality trend it grows by topk_step and does not end above
\* topk_max; on a confident trend it shrinks by topk_step, not below 3, and
\* is not larger afterwards than before; otherwise it stays.
C23_TopKFollowsTrend ==
    OutsideCooldown =>
      LET before == GatedProfile.TopK
          after  == gating.last.applied.TopK
          step   == TopKStepOf(gating.p.feedbackCfg)
          max    == gating.p.feedbackCfg.Adjustments.TopKMax
      IN  /\ LowQualityTrend =>
                /\ before <= after
                /\ after <= before + step
                /\ max > 0 => after <= max
          /\ ~LowQualityTrend /\ ConfidentTrend =>
                /\ after <= before
                /\ after >= before - step
                /\ before >= TopKFloor => after >= TopKFloor
          /\ ~LowQualityTrend /\ ~ConfidentTrend => after = before

\* The feedback adjustment of the last query added web: the profile used
\* has it, and neither the profile after the gating decision had it.
FeedbackAddedWeb ==
    /\ gating.last.done
    /\ containsRetriever(gating.last.applied.Retrievers, "web")
    /\ ~gating.last.decision.ShouldForceWeb
    /\ \/ ~containsRetriever(GatedProfile.Retrievers, "web")
       \/ gating.last.decision.ShouldSuppressWeb

\* C24: the feedback adjustment adds web only when enable_force_web_on_low
\* is set and the consecutive incorrect or ambiguous verdicts have reached
\* their configured thresholds; an adjustment for a confident trend adds
\* no web.
C24_WebAddedOnLowQualityTrendOnly ==
    FeedbackAddedWeb =>
      /\ gating.p.feedbackCfg.Adjustments.EnableForceWebOnLow
      /\ LowQualityTrend

-----------------------------------------------------------------------------
(***************************************************************************)
(* Claims about the throttle of feedback adjustments                       *)
(***************************************************************************)

\* C25: once an adjustment is marked for a key, no query of that key has its
\* profile adjusted by feedback before the cooldown has elapsed, queries that
\* run at the same time included.
C25_NoAdjustmentDuringCooldown ==
    \A i \in DOMAIN throttle.procs : ~throttle.procs[i].late

-----------------------------------------------------------------------------
(***************************************************************************)
(* Claims about the weight lookup of weighted fusion                       *)
(***************************************************************************)

\* The weight of input idx by the first key present in the weights map, in
\* the order retriever, "retriever:provider", "list_idx"; 1 when none is.
FirstKeyPresent(weights, in, idx) ==
    IF StrKey(in.Retriever) \in DOMAIN weights
    THEN weights[StrKey(in.Retriever)]
    ELSE IF compoundKey(in.Retriever, in.Provider) \in DOMAIN weights
    THEN weights[compoundKey(in.Retriever, in.Provider)]
    ELSE IF indexKey(idx) \in DOMAIN weights THEN weights[indexKey(idx)]
    ELSE 1

\* C28: a run of weighted fusion weighs every input that has results by the
\* first key present in the weights map, tried in the order retriever name,
\* "retriever:provider", "list_i", and by 1.0 only if none of them is
\* present.
C28_WeightByFirstKeyPresent ==
    fusion.cfg.name = "weighted" /\ Len(fusion.outs) > 0 =>
      \A i \in DOMAIN fusion.inputs :
        Len(fusion.inputs[i].Results) > 0 =>
          WeightFor(fusion.cfg.weights, fusion.inputs[i], i - 1)
            = FirstKeyPresent(fusion.cfg.weights, fusion.inputs[i], i - 1)

-----------------------------------------------------------------------------
(***************************************************************************)
(* Claims about the canary rollout of learned fusion                       *)
(***************************************************************************)

\* A call with a traffic percentage inside (0, 100) has returned.
CanaryCall ==
    /\ canary.done
    /\ canary.params.traffic_percent > 0
    /\ canary.params.traffic_percent < 100

\* The query_id, or the query when no query_id is given.
QueryIdOrQuery ==
    IF canary.params.query_id # <<>> THEN canary.params.query_id
    ELSE canary.params.query

LearnedApplied == canary.metadata = "learned"

FallbackOutput == canary.out \in Fuse(LearnedConfig(FALSE), canary.inputs)

LearnedOutput == canary.out \in Fuse(LearnedConfig(TRUE), canary.inputs)

\* C29 as stated: with traffic_percent in (0,100) the learned weights are
\* applied exactly when fnv32a(query_id, or the query) mod 100 <
\* traffic_percent, and the output of an excluded query is the fallback's.
C29_AppliedExactlyWhenHashBelowPercent ==
    CanaryCall =>
      /\ LearnedApplied <=>
           Sum32Mod100(QueryIdOrQuery) < canary.params.traffic_percent
      /\ ~LearnedApplied => FallbackOutput

\* The query is inside the canary: its hash seed (query_id, else query, else
\* the query of the first input) is empty or hashes below the percentage.
InsideCanary ==
    LET seed == IF QueryIdOrQuery # <<>> THEN QueryIdOrQuery
                ELSE IF Len(canary.inputs) > 0 THEN canary.inputQuery
                ELSE <<>>
    IN  \/ seed = <<>>
        \/ Sum32Mod100(seed) < canary.params.traffic_percent

\* C29, amended: with traffic_percent in (0,100) a query is inside the canary
\* when its seed (query_id, else query, else the first input's query) is
\* empty or fnv32a(seed) mod 100 < traffic_percent; the learned weights are
\* applied exactly when the query is inside the canary and the loader
\* returns a snapshot, and otherwise the output is that of the fallback
\* strategy on the same inputs.
C29_AppliedWhenInsideCanaryAndLoaded ==
    CanaryCall =>
      /\ LearnedApplied <=> InsideCanary /\ canary.loader = "ok"
      /\ LearnedApplied => LearnedOutput
      /\ ~LearnedApplied => FallbackOutput

\* The query_id "a" hashes to bucket 20: inside 21 percent and applied, with
\* an output the fallback does not produce.
C29_Witness ==
    /\ CanaryCall
    /\ canary.params.query_id = <<97>>
    /\ Sum32Mod100(canary.params.query_id) = 20
    /\ canary.params.traffic_percent = 21
    /\ LearnedApplied
    /\ ~FallbackOutput

-----------------------------------------------------------------------------
(***************************************************************************)
(* Claims about the weights loader                                         *)
(***************************************************************************)

\* The caller's last Get returned without a read of the source.
ReturnedCached(i) == wloader.procs[i].how \in {"cached", "rechecked"}

\* C30: Get returns the cached snapshot without reading the source while the
\* snapshot is fresh, and of the callers that find it expired at the same
\* time one reads the source: after a successful read, no read is begun
\* before the ttl of its snapshot has passed, and a caller that takes the
\* write lock meanwhile returns the snapshot just loaded.
C30_FreshSnapshotIsReused ==
    /\ \A a, b \in DOMAIN wloader.loads :
         a < b /\ wloader.loads[a].ok =>
           wloader.loads[b].start >= wloader.loads[a].fetched + wloader.ttl
    /\ \A i \in DOMAIN wloader.procs :
         ReturnedCached(i) /\ wloader.procs[i].pc = "done" =>
           /\ wloader.procs[i].result # NilSnapshot
           /\ wloader.procs[i].result.Version \in DOMAIN wloader.loads
           /\ wloader.loads[wloader.procs[i].result.Version].ok
           /\ wloader.procs[i].checkedAt - wloader.procs[i].result.Fetched
                < wloader.ttl

\* Two callers found the second snapshot's predecessor expired; one of them
\* read the source, the other took the write lock afterwards and returned
\* the snapshot of that read, and the source was read twice in all.
C30_Witness ==
    /\ \E i, j \in DOMAIN wloader.procs :
         /\ i # j
         /\ wloader.procs[i].how = "loaded"
         /\ wloader.procs[j].how = "rechecked"
         /\ wloader.procs[i].result = wloader.procs[j].result
         /\ wloader.procs[j].result.Version = 2
    /\ Len(wloader.loads) = 2
    /\ wloader.loads[1].ok

-----------------------------------------------------------------------------
(***************************************************************************)
(* Claims about what Do returns when every attempt fails                   *)
(***************************************************************************)

\* C40: a Do call whose attempts all failed, 5xx answers included, returns a
\* non-nil error; a nil error comes only with a response whose status is in
\* [200,500), which is the only response whose body Do leaves open.
C40_FailureIsReportedAsError ==
    /\ httpObs.result = "fail" => httpObs.lastErr # "nil"
    /\ httpObs.result # "none" /\ httpObs.lastErr = "nil" =>
         httpObs.lastResp = "ok"

-----------------------------------------------------------------------------
(***************************************************************************)
(* Claims about the retrievers of the active profile                       *)
(***************************************************************************)

\* C35: the retrievers of a profile contain "vector" after normalization,
\* and still do after a router decision and a gating decision have been
\* applied and the profile has been normalized again.
C35_ActiveProfileHasVector ==
    /\ profObs.stage = "normalized" /\ profile = Normalize(profile) =>
         containsRetriever(profile.Retrievers, "vector")
    /\ profObs.stage = "gated" =>
         containsRetriever(profile.Retrievers, "vector")

-----------------------------------------------------------------------------
(***************************************************************************)
(* Claims about the HTTP router                                            *)
(***************************************************************************)

\* The remote call of the last Route failed: no request, an error of
\* Client.Do, a status other than 200 or a body that does not decode.
RemoteCallFailed ==
    LET call == route.last[1].call
    IN  \/ call.kind # "response"
        \/ call.status # 200
        \/ ~call.decodes

\* C34: HTTPRouter.Route returns no error; when the remote call fails in any
\* way it returns the decision of the rule-based router for the same query,
\* and otherwise the decision the service answered.
C34_RouteFallsBackWithoutError ==
    route.calls > 0 =>
      /\ route.last[1].returned.err = "nil"
      /\ RemoteCallFailed =>
           route.last[1].returned.decision
             = RuleBasedRoute(route.rules, route.last[1].query)
      /\ ~RemoteCallFailed =>
           route.last[1].returned.decision = route.last[1].call.decision

\* A temporal query answered with status 404 and a decodable body: Route
\* returns the rule-based decision of the rule for temporal queries.
C34_Witness ==
    /\ route.calls > 0
    /\ route.last[1].call.kind = "response"
    /\ route.last[1].call.status = 404
    /\ route.last[1].call.decodes
    /\ route.last[1].query.temporal
    /\ route.last[1].returned.decision.ProfileName = "fresh"
    /\ route.last[1].returned.decision.NeedVector

-----------------------------------------------------------------------------
(***************************************************************************)
(* Claims about the HTTP reranker                                          *)
(***************************************************************************)

\* C36: on a successful call the reranker returns the ranking joined to the
\* candidates by id, stably sorted by score descending and then truncated
\* to top_n: the top_n highest-scored ranked candidates in non-increasing
\* score order, in whatever order the service lists them.
C36_SortedThenTruncated ==
    reranker.done /\ reranker.call = "ok" /\ Len(reranker.ranking) > 0 =>
      reranker.out =
        TruncateTo(StableSortDesc(JoinById(reranker.in, reranker.ranking),
                                  1, <<>>),
                   reranker.topN)

-----------------------------------------------------------------------------
(***************************************************************************)
(* Claims about the validation of the configuration                        *)
(***************************************************************************)

\* C37: validation rejects a pipeline configuration in which two retrieval
\* profiles have the same name: a configuration that Validate accepts has
\* pairwise distinct profile names.
C37_DuplicateNamesRejected ==
    validation.validated /\ validation.errs = <<>> =>
      \A i, j \in DOMAIN validation.cfg.RetrievalProfiles :
          validation.cfg.RetrievalProfiles[i].Name =
            validation.cfg.RetrievalProfiles[j].Name => i = j

-----------------------------------------------------------------------------
(***************************************************************************)
(* Claims about the retrieval provider                                     *)
(***************************************************************************)

\* C32: with max_fanout > 0 a Retrieve call launches at most max_fanout
\* (query, retriever) tasks.
C32_FanoutWithinMaxFanout ==
    retrieval.prof.MaxFanout > 0 =>
      Len(retrieval.tasks) <= retrieval.prof.MaxFanout

\* C33: a task that fails contributes no results and does not fail the
\* retrieval: what Retrieve returns is a list it can return when every
\* failed task had answered an empty list instead.
C33_FailedTaskCountsAsEmpty ==
    retrieval.stage = "done" =>
      retrieval.out \in Outcomes(retrieval.cfg, retrieval.prof, retrieval.tasks,
                                 FailedAsEmpty(retrieval.responses))

C33_Witness ==
    /\ retrieval.stage = "done"
    /\ retrieval.out # <<>>
    /\ \E t \in Range(retrieval.tasks) :
         retrieval.responses[t].err /\ Len(retrieval.responses[t].docs) > 0

\* C38: for fixed responses the result of Retrieve does not depend on the
\* order in which the tasks complete nor on the order in which the bundles
\* are handed to the strategy: it is a result of the run in which the tasks
\* end in launch order and the bundles are in the order of the retrievers.
C38_ResultIndependentOfOrder ==
    retrieval.stage = "done" =>
      retrieval.out \in InOrderOutcomes(retrieval.cfg, retrieval.prof,
                                        retrieval.tasks, retrieval.responses)

\* C39: with RRF (k = 60) and the default threshold 0.5 a query whose
\* retrievers return documents has a non-empty result.
C39_DefaultsKeepTopDocument ==
    /\ retrieval.stage = "done"
    /\ retrieval.cfg.name = "rrf"
    /\ retrieval.prof.Threshold = DefaultThreshold
    /\ \E t \in Range(retrieval.tasks) :
         ~retrieval.responses[t].err /\ Len(retrieval.responses[t].docs) > 0
    => retrieval.out # <<>>

-----------------------------------------------------------------------------
(***************************************************************************)
(* Claims about replacing the fusion strategy                              *)
(***************************************************************************)

\* C31: a Retrieve call that runs beside SetFusionStrategy fuses with the
\* strategy and the params of before the call or with those of after the
\* call, never with the strategy of one and the params of the other.
C31_StrategySwapIsAtomic ==
    \A g \in Retrievals :
        swap.fuse[g].pc = "fused" =>
          [strategy |-> swap.fuse[g].strategy, params |-> swap.fuse[g].params]
            \in {BeforeSwap, AfterSwap}

====
